---- MODULE Spec2Model ----
(***************************************************************************)
(* Model of ai-counsel.                                                    *)
(*                                                                         *)
(* Spec, SpecVotes: the deliberation engine (src/deliberation/engine.py),  *)
(* DeliberationEngine.execute and the helpers it calls.  One behaviour of  *)
(* Spec is one call of execute() on one request, with the adapters, the    *)
(* convergence detector and the summarizer as environment inputs.          *)
(*                                                                         *)
(* SpecAdapter: one BaseCLIAdapter.invoke (src/adapters/base.py) with its  *)
(* retry loop, the two stream readers and the supervisor loop.             *)
(*                                                                         *)
(* SpecFactory: the adapter factory with the CLI availability check and    *)
(* the gateway fallback.                                                   *)
(*                                                                         *)
(* SpecTools: ToolExecutor (src/deliberation/tools.py), execute_tool       *)
(* called by the tasks of concurrently running deliberations.              *)
(*                                                                         *)
(* Every specification leaves the variables of the other components at     *)
(* their initial values.                                                   *)
(***************************************************************************)
EXTENDS Integers, Sequences, FiniteSets, TLC

(***************************************************************************)
(* Bounds of the model and program constants                               *)
(***************************************************************************)
\* largest round count a request of the model asks for (the schema allows 5)
MaxRounds == 3
\* largest number of participants of a request of the model
MaxParticipants == 2
\* DeliberateRequest.participants has min_length=2
MinParticipants == 2
\* defaults.rounds of the shipped configuration, the minimum that
\* EarlyStoppingConfig.respect_min_rounds is documented to respect
DefaultMinRounds == 2

\* the null of an optional field
None == "None"

\* the default of mcp.max_rounds_in_response
DefaultMaxRoundsInResponse == 3

\* option labels a vote may carry; three, so that a highest count that is no
\* majority of the votes (2-1-1) exists
Options == {"A", "B", "C"}

\* early_stopping.threshold in percent (0.66)
Thresholds == {66}

(***************************************************************************)
(* Response texts.  A text is what an adapter returned, reduced to what    *)
(* the engine reads in it: whether it carries a VOTE marker, and if so the *)
(* marker's option and continue_debate flag and whether the JSON passes    *)
(* the Vote validation.                                                    *)
(***************************************************************************)
NoMarker == [present |-> FALSE, valid |-> FALSE, option |-> None, continue_debate |-> TRUE]

Marker(o, c, v) == [present |-> TRUE, valid |-> v, option |-> o, continue_debate |-> c]

\* texts a successful adapter.invoke returns in the model: a vote for A that
\* continues, a vote for B that asks to stop, and a marker that asks to stop but
\* fails validation (to the engine the same as a text without marker, which the
\* error text stands for)
AdapterTexts ==
    { [err |-> FALSE, marker |-> Marker("A", TRUE, TRUE)],
      [err |-> FALSE, marker |-> Marker("B", FALSE, TRUE)],
      [err |-> FALSE, marker |-> Marker("A", FALSE, FALSE)] }

\* f"[ERROR: {type(e).__name__}: {str(e)}]"
ErrorText == [err |-> TRUE, marker |-> NoMarker]

\* the None that _parse_vote returns
NoVote == [present |-> FALSE, option |-> None, continue_debate |-> TRUE]

\* _parse_vote: the regex finds the marker, json.loads and Vote(**data) validate it
ParseVote(text) ==
    IF ~text.marker.present THEN NoVote
    ELSE IF ~text.marker.valid THEN NoVote
    ELSE [present |-> TRUE, option |-> text.marker.option,
          continue_debate |-> text.marker.continue_debate]

(***************************************************************************)
(* Sequence helpers                                                        *)
(***************************************************************************)
RECURSIVE VotesOf(_)
\* the RoundVote list built by the loop of _aggregate_votes
VotesOf(rs) ==
    IF rs = <<>> THEN <<>>
    ELSE LET v == ParseVote(Head(rs).response)
         IN  IF ~v.present THEN VotesOf(Tail(rs))
             ELSE <<[round |-> Head(rs).round, participant |-> Head(rs).participant, vote |-> v]>>
                  \o VotesOf(Tail(rs))

\* sum(1 for v in votes if not v.continue_debate)
CountStop(votes) == Cardinality({k \in DOMAIN votes : ~votes[k].vote.continue_debate})

\* how many of the votes chose option o
CountOption(votes, o) == Cardinality({k \in DOMAIN votes : votes[k].vote.option = o})

(***************************************************************************)
(* State of one execute() call                                             *)
(***************************************************************************)
VARIABLES
    request,                \* DeliberateRequest: rounds, mode, participants (their number)
    config,                 \* engine.config: absent, or the early_stopping / convergence_detection sections
    pc,                     \* position in execute(): "round", "post", "done"
    round_num,              \* loop variable of execute()
    idx,                    \* participants execute_round's loop has finished in this round
    responses,              \* execute_round's local list of this round's responses
    inflight,               \* participants whose adapter.invoke is awaited
    all_responses,          \* execute()'s accumulated list
    final_convergence_info, \* last detector result, or NoConvergence
    converged,
    model_controlled_stop,
    invoked,                \* <<round, participant>> pairs whose adapter was invoked
    contexts,               \* the context argument of each adapter.invoke call, in call order
    outcomes,               \* what each finished adapter.invoke did, in order of completion
    detector_calls,         \* rounds for which check_convergence was called
    last_check,             \* the latest check_convergence call: its round and the status returned
    summary_failed,         \* generate_summary raised and the except branch ran
    result,                 \* the DeliberationResult, or NoResult before the return
    rpc_response            \* what call_tool serializes for the deliberate tool

engine_vars ==
    <<request, config, pc, round_num, idx, responses, inflight, all_responses,
      final_convergence_info, converged, model_controlled_stop, invoked, contexts,
      outcomes, detector_calls, last_check, summary_failed, result, rpc_response>>

(***************************************************************************)
(* State of one BaseCLIAdapter.invoke call.  Time is counted in periods of *)
(* the supervisor's poll (asyncio.sleep(0.5)) since the attempt's process  *)
(* was spawned; what a reader does between two polls is stamped with the   *)
(* time of the earlier one.                                                *)
(***************************************************************************)
VARIABLES
    invoke_pc,      \* "idle", "reading", "waiting", "backoff", "returned", "raised"
    max_retries,    \* self.max_retries
    attempt,        \* loop variable of the retry loop
    now,            \* time.time() as the supervisor last read it
    start_time,
    last_activity,
    stdout_chunks,  \* number of chunks read from stdout
    stderr_chunks,  \* the chunks read from stderr
    stdout_done,    \* stdout_task.done(): the reader saw EOF
    stderr_done,
    timed_out,
    killed,         \* process.kill() was called
    spawned,        \* subprocesses created by this invoke
    sleeps,         \* the wait_time of every backoff sleep, in order
    invoke_result   \* what invoke returned or raised

adapter_vars ==
    <<invoke_pc, max_retries, attempt, now, start_time, last_activity, stdout_chunks,
      stderr_chunks, stdout_done, stderr_done, timed_out, killed, spawned, sleeps,
      invoke_result>>

\* largest max_retries of the model (the default is 2)
MaxRetries == 2
\* self.activity_timeout, in poll periods
ActivityTimeout == 2
\* self.timeout, in poll periods
HardTimeout == 4
\* chunks a process writes to stdout during one attempt
MaxChunks == 2
\* chunks a process writes to stderr during one attempt
MaxStderrChunks == 1
\* error_msg.split('\n')[0][:150]
MaxErrorChars == 150

\* a line of stderr, reduced to what invoke reads in it: the transient pattern it
\* matches (or None) and its length
EmptyLine == [pattern |-> None, len |-> 0]

\* invoke has neither returned nor raised
NoInvokeResult == [kind |-> None, output |-> 0, error |-> EmptyLine]

\* the adapter is constructed and invoke has not been called
AdapterInit ==
    /\ invoke_pc = "idle"
    /\ max_retries \in 0 .. MaxRetries
    /\ attempt = 0
    /\ now = 0
    /\ start_time = 0
    /\ last_activity = 0
    /\ stdout_chunks = 0
    /\ stderr_chunks = <<>>
    /\ stdout_done = FALSE
    /\ stderr_done = FALSE
    /\ timed_out = FALSE
    /\ killed = FALSE
    /\ spawned = 0
    /\ sleeps = <<>>
    /\ invoke_result = NoInvokeResult

(***************************************************************************)
(* State of the adapter factory: one create_adapter_with_fallback call     *)
(***************************************************************************)
VARIABLES
    factory_pc,     \* "idle", "done"
    factory_call,   \* the arguments and the environment of the call
    factory_result  \* the (adapter, fallback_model) returned, or the error raised

factory_vars == <<factory_pc, factory_call, factory_result>>

\* create_adapter's registry of CLI adapters: name -> adapter class
cli_adapters ==
    [n \in {"claude", "codex", "droid", "gemini"} |->
        CASE n = "claude" -> "ClaudeAdapter"
          [] n = "codex" -> "CodexAdapter"
          [] n = "droid" -> "DroidAdapter"
          [] n = "gemini" -> "GeminiAdapter"]

\* create_adapter's registry of HTTP adapters (openrouter is commented out there)
http_adapters ==
    [n \in {"ollama", "lmstudio"} |->
        IF n = "ollama" THEN "OllamaAdapter" ELSE "LMStudioAdapter"]

\* names a configuration may carry: the registered ones, and llamacpp and openrouter,
\* which have adapter classes but no entry in create_adapter's registries
AdapterNames == DOMAIN cli_adapters \cup DOMAIN http_adapters \cup {"llamacpp", "openrouter"}

\* CLIAdapterConfig, the legacy CLIToolConfig, HTTPAdapterConfig, anything else
ConfigTypes == {"cli", "cli_tool", "http", "other"}

\* a call: the adapter name, the type of its config, whether the PATH lookup finds
\* config.command, whether the gateway API key is set, and the
\* check_cli_availability argument
FactoryCalls ==
    [name : AdapterNames, config : ConfigTypes, cli_available : BOOLEAN,
     api_key_set : BOOLEAN, check_cli_availability : BOOLEAN]

NoFactoryResult ==
    [fn |-> None, raised |-> FALSE, adapter |-> None, fallback_model |-> None,
     error |-> None, availability_checked |-> FALSE]

FactoryInit ==
    /\ factory_pc = "idle"
    /\ factory_call \in FactoryCalls
    /\ factory_result = NoFactoryResult

(***************************************************************************)
(* State of the ToolExecutor and of the process it runs in.  Deliberations *)
(* run as tasks of one event loop and share the executor's process, so     *)
(* every task has its own execute_tool call and all share cwd.             *)
(***************************************************************************)
VARIABLES
    tools,            \* keys of self.tools
    cwd,              \* the working directory of the process
    tool_pc,          \* per task: "idle", "executing" (tool.execute is awaited), "returned"
    tool_request,     \* per task: the arguments of its execute_tool call
    original_dir,     \* per task: execute_tool's local
    cwd_before,       \* per task: the working directory when execute_tool was called
    cwd_after,        \* per task: the working directory when execute_tool returned
    exit_path,        \* per task: the path by which execute_tool returned
    restore_logged,   \* per task: "Failed to restore working directory" was logged
    tool_result,      \* per task: the ToolResult returned
    overlapping       \* the calls in flight together: the directory before the first of
                      \* them, whether two overlapped, whether all named a working
                      \* directory, whether a restoring os.chdir failed

tool_vars ==
    <<tools, cwd, tool_pc, tool_request, original_dir, cwd_before, cwd_after, exit_path,
      restore_logged, tool_result, overlapping>>

\* most deliberations that use the executor at the same time
MaxTasks == 2

Tasks == 1..MaxTasks

NoToolRequest == [name |-> None, working_directory |-> None]

NoToolResult ==
    [present |-> FALSE, raised |-> FALSE, tool_name |-> None, success |-> FALSE,
     error |-> None]

\* the directory the server process was started in
StartDir == "/project"

\* no call is in flight
NoOverlap ==
    [first_cwd |-> StartDir, overlapped |-> FALSE, all_with_dir |-> TRUE,
     restore_failed |-> FALSE]

\* a ToolExecutor() before any register_tool, no execute_tool called
ToolsInit ==
    /\ tools = {}
    /\ cwd = StartDir
    /\ tool_pc = [t \in Tasks |-> "idle"]
    /\ tool_request = [t \in Tasks |-> NoToolRequest]
    /\ original_dir = [t \in Tasks |-> None]
    /\ cwd_before = [t \in Tasks |-> StartDir]
    /\ cwd_after = [t \in Tasks |-> StartDir]
    /\ exit_path = [t \in Tasks |-> None]
    /\ restore_logged = [t \in Tasks |-> FALSE]
    /\ tool_result = [t \in Tasks |-> NoToolResult]
    /\ overlapping = NoOverlap

(***************************************************************************)
(* State of one DecisionRetriever.format_context_tiered call.  Texts are   *)
(* carried as their lengths in characters.                                 *)
(***************************************************************************)
VARIABLES
    format_pc,          \* "idle", "loop", "after_loop", "done"
    scored_decisions,   \* the argument: (decision, score) pairs, scores in hundredths
    tier_boundaries,    \* the argument: the strong and the moderate threshold
    token_budget,       \* the argument
    next_decision,      \* position of the for loop in scored_decisions
    tokens_used,        \* local of format_context_tiered
    tier_distribution,  \* local of format_context_tiered
    formatted_parts,    \* local of format_context_tiered: the length of each part
    format_result       \* the dict returned

format_vars ==
    <<format_pc, scored_decisions, tier_boundaries, token_budget, next_decision,
      tokens_used, tier_distribution, formatted_parts, format_result>>

NoTiers == [strong |-> 0, moderate |-> 0, brief |-> 0]

NoFormatResult ==
    [present |-> FALSE, formatted_len |-> 0, tokens_used |-> 0, tier_distribution |-> NoTiers]

\* the default tier_boundaries of DecisionGraphConfig
DefaultTierBoundaries == [strong |-> 75, moderate |-> 60]

\* the locals of format_context_tiered before its first statement
FormatLocalsInit ==
    /\ format_pc = "idle"
    /\ next_decision = 1
    /\ tokens_used = 0
    /\ tier_distribution = NoTiers
    /\ formatted_parts = <<>>
    /\ format_result = NoFormatResult

\* format_context_tiered is not called
FormatIdle ==
    /\ FormatLocalsInit
    /\ scored_decisions = <<>>
    /\ tier_boundaries = DefaultTierBoundaries
    /\ token_budget = 0

(***************************************************************************)
(* The decision graph: the three tables of DecisionGraphStorage, the       *)
(* retriever's query cache and clock, and the results of the calls made.   *)
(***************************************************************************)
VARIABLES
    decision_nodes,         \* table decision_nodes: id -> row
    participant_stances,    \* table participant_stances: rows in AUTOINCREMENT order
    decision_similarities,  \* table decision_similarities: <<source_id, target_id>> -> score
    storage_result,         \* what the last call of the storage API returned or raised
    store_result,           \* what the last store_deliberation returned or raised
    query_cache,            \* DecisionRetriever.cache: None or the L1 entries
    clock,                  \* the time read by the cache and by datetime.now()
    retrieval_call,         \* the retrieval call in progress
    retrieval_result        \* what the last retrieval call returned or raised

graph_vars == <<decision_nodes, participant_stances, decision_similarities, storage_result,
                store_result, query_cache, clock, retrieval_call, retrieval_result>>

(***************************************************************************)
(* The sqlite3 connection of the one DecisionGraphStorage that the         *)
(* deliberations running in the event loop share.                          *)
(***************************************************************************)
VARIABLES
    writer_pc,      \* per deliberation: "idle", or "in_transaction" between the INSERT
                    \* and the end of the "with self.transaction()" block
    pending,        \* rows written on the connection and neither committed nor rolled back
    running,        \* the deliberation that holds the event loop, 0 when any may be scheduled
    write_result    \* per deliberation: what its last save_decision_node did

connection_vars == <<writer_pc, pending, running, write_result>>

NoWriteResult == [present |-> FALSE, raised |-> None, id |-> 0]

\* no transaction is open and nothing was written
ConnectionIdle ==
    /\ writer_pc = [t \in Tasks |-> "idle"]
    /\ pending = {}
    /\ running = 0
    /\ write_result = [t \in Tasks |-> NoWriteResult]

\* a DecisionNode that is not there
NullNode ==
    [id |-> 0, question |-> None, timestamp |-> 0, consensus |-> None,
     winning_option |-> None, convergence_status |-> None, participants |-> <<>>,
     transcript_path |-> None, metadata |-> {}]

NoStorageResult ==
    [present |-> FALSE, op |-> None, raised |-> None, node |-> NullNode, refers_to |-> {}]

NoStoreResult ==
    [present |-> FALSE, raised |-> None, returned |-> 0, decision_id |-> 0, failed_step |-> None]

NoRetrievalCall == [present |-> FALSE, fn |-> None, question |-> None, threshold |-> 0,
                    max_results |-> 0]

NoRetrievalResult == [present |-> FALSE, fn |-> None, raised |-> None, logged |-> None,
                      from_cache |-> FALSE, decisions |-> <<>>]

\* no table has a row and nothing was called
GraphTablesEmpty ==
    /\ decision_nodes = <<>>
    /\ participant_stances = <<>>
    /\ decision_similarities = <<>>
    /\ storage_result = NoStorageResult
    /\ store_result = NoStoreResult
    /\ clock = 0
    /\ retrieval_call = NoRetrievalCall
    /\ retrieval_result = NoRetrievalResult
    /\ ConnectionIdle

\* DecisionRetriever(storage): enable_cache defaults to True, the cache starts empty
GraphIdle == GraphTablesEmpty /\ query_cache = [enabled |-> TRUE, entries |-> <<>>]

vars ==
    <<engine_vars, adapter_vars, factory_vars, tool_vars, format_vars, graph_vars,
      connection_vars>>

\* the variables the engine does not touch
outside_engine ==
    <<adapter_vars, factory_vars, tool_vars, format_vars, graph_vars, connection_vars>>

\* the variables BaseCLIAdapter.invoke does not touch
outside_adapter ==
    <<engine_vars, factory_vars, tool_vars, format_vars, graph_vars, connection_vars>>

\* the variables the adapter factory does not touch
outside_factory ==
    <<engine_vars, adapter_vars, tool_vars, format_vars, graph_vars, connection_vars>>

\* the variables the ToolExecutor does not touch
outside_tools ==
    <<engine_vars, adapter_vars, factory_vars, format_vars, graph_vars, connection_vars>>

\* the variables the tiered formatter does not touch
outside_format ==
    <<engine_vars, adapter_vars, factory_vars, tool_vars, graph_vars, connection_vars>>

\* the variables the decision graph does not touch
outside_graph ==
    <<engine_vars, adapter_vars, factory_vars, tool_vars, format_vars, connection_vars>>

\* the variables neither the decision graph nor its connection touches
outside_store == <<engine_vars, adapter_vars, factory_vars, tool_vars, format_vars>>

\* an adapter of the default max_retries on which invoke is not called
AdapterIdle == AdapterInit /\ max_retries = MaxRetries

\* no adapter is being created
FactoryIdle ==
    /\ FactoryInit
    /\ factory_call = [name |-> "claude", config |-> "cli", cli_available |-> TRUE,
                        api_key_set |-> FALSE, check_cli_availability |-> TRUE]

\* the components outside the engine in their initial states
OutsideEngineIdle == AdapterIdle /\ FactoryIdle /\ ToolsInit /\ FormatIdle /\ GraphIdle

Participants == 1 .. request.participants

Modes == {"quick", "conference"}

Requests ==
    [rounds : 1 .. MaxRounds, mode : Modes, participants : MinParticipants .. MaxParticipants]

EarlyStoppingConfigs ==
    [enabled : BOOLEAN, threshold : Thresholds, respect_min_rounds : BOOLEAN]

\* DeliberationEngine(adapters) without a config
NoConfig ==
    [present |-> FALSE,
     early_stopping |-> [enabled |-> FALSE, threshold |-> 66, respect_min_rounds |-> TRUE],
     convergence_enabled |-> FALSE]

\* a disabled early_stopping section is read no further, so one stands for all
Configs ==
    {NoConfig} \cup
    { c \in [present : {TRUE}, early_stopping : EarlyStoppingConfigs,
             convergence_enabled : BOOLEAN] :
        ~c.early_stopping.enabled =>
            (c.early_stopping.threshold = 66 /\ c.early_stopping.respect_min_rounds) }

\* self.convergence_detector is set in __init__ only with a config that enables it
HasDetector == config.present /\ config.convergence_enabled

DetectorStatuses == {"converged", "impasse", "refining", "diverging"}

\* check_convergence returned None
NoConvergence == [status |-> None, converged |-> FALSE]

\* results check_convergence returns
DetectorResults ==
    {NoConvergence} \cup
    { [status |-> s, converged |-> (s = "converged")] : s \in DetectorStatuses }

\* mutant: the mode is not read, quick mode runs the requested rounds
RoundsToExecute_IgnoresMode == request.rounds

\* rounds_to_execute of execute()
RoundsToExecute == IF request.mode = "quick" THEN 1 ELSE request.rounds

\* voting_result is None
NoVotingResult ==
    [present |-> FALSE, final_tally |-> [o \in Options |-> 0], votes_by_round |-> <<>>,
     consensus_reached |-> FALSE, winning_option |-> None]

\* convergence_info is None
NoConvergenceInfo == [present |-> FALSE, detected |-> FALSE, detection_round |-> 0, status |-> None]

\* execute() has not returned
NoResult ==
    [status |-> None, mode |-> None, rounds_completed |-> 0, participants |-> 0,
     summary |-> None, full_debate |-> <<>>, voting_result |-> NoVotingResult,
     convergence_info |-> NoConvergenceInfo]

\* call_tool has not built a response
NoResponse ==
    [present |-> FALSE, max_rounds |-> 0, full_debate |-> <<>>,
     full_debate_truncated |-> FALSE, has_total_rounds |-> FALSE, total_rounds |-> 0]

Init ==
    /\ request \in Requests
    /\ config \in Configs
    /\ pc = "round"
    /\ round_num = 1
    /\ idx = 0
    /\ responses = <<>>
    /\ inflight = {}
    /\ all_responses = <<>>
    /\ final_convergence_info = NoConvergence
    /\ converged = FALSE
    /\ model_controlled_stop = FALSE
    /\ invoked = {}
    /\ contexts = <<>>
    /\ outcomes = <<>>
    /\ detector_calls = {}
    /\ last_check = [round |-> 0, status |-> None]
    /\ summary_failed = FALSE
    /\ result = NoResult
    /\ rpc_response = NoResponse
    /\ OutsideEngineIdle

(***************************************************************************)
(* execute_round                                                           *)
(***************************************************************************)
\* RoundResponse(round=round_num, participant=..., response=response_text)
RoundResponse(rn, i, text) == [round |-> rn, participant |-> i, response |-> text]

\* the None passed when previous_responses is empty
NoContext == [present |-> FALSE, header |-> None, parts |-> <<>>]

\* _build_context: the header line, then one part per response with its round, its
\* participant and its text
BuildContext(previous_responses) ==
    [present |-> TRUE,
     header |-> "Previous discussion:",
     parts |-> [k \in DOMAIN previous_responses |->
                   [round |-> previous_responses[k].round,
                    participant |-> previous_responses[k].participant,
                    response |-> previous_responses[k].response]]]

\* "context = self._build_context(previous_responses) if previous_responses else None"
ContextOf(previous_responses) ==
    IF previous_responses = <<>> THEN NoContext ELSE BuildContext(previous_responses)

\* mutant: the responses already given in the running round are passed as well
PreviousResponses_WithCurrentRound == all_responses \o responses

\* "previous_responses=all_responses" in the call of execute_round; all_responses
\* is extended after execute_round has returned
PreviousResponses == all_responses

\* mutant: the participants of a round are invoked without awaiting one another
MayStart_Concurrent(i) == <<round_num, i>> \notin invoked

\* the for loop awaits each adapter.invoke before it moves on: participant i is
\* invoked when the loop has finished i-1 participants and awaits nothing
MayStart(i) == inflight = {} /\ i = idx + 1

\* mutant: a failed participant leaves no entry
OnAdapterError_Skip(rs, rn, i) == rs

\* the except branch: the error text takes the participant's slot
OnAdapterError(rs, rn, i) == Append(rs, RoundResponse(rn, i, ErrorText))

\* adapter.invoke(...) is called for participant i
StartInvoke(i) ==
    /\ pc = "round"
    /\ MayStart(i)
    /\ inflight' = inflight \cup {i}
    /\ invoked' = invoked \cup {<<round_num, i>>}
    /\ contexts' = Append(contexts, [round |-> round_num, participant |-> i,
                                     context |-> ContextOf(PreviousResponses)])
    /\ UNCHANGED <<request, config, pc, round_num, idx, responses, all_responses,
                   final_convergence_info, converged, model_controlled_stop,
                   outcomes, detector_calls, last_check, summary_failed, result, rpc_response>>
    /\ UNCHANGED outside_engine

\* adapter.invoke returns a text
InvokeReturn(i, text) ==
    /\ pc = "round"
    /\ i \in inflight
    /\ inflight' = inflight \ {i}
    /\ responses' = Append(responses, RoundResponse(round_num, i, text))
    /\ idx' = idx + 1
    /\ outcomes' = Append(outcomes, [round |-> round_num, participant |-> i,
                                     raised |-> FALSE, text |-> text])
    /\ UNCHANGED <<request, config, pc, round_num, all_responses, final_convergence_info,
                   converged, model_controlled_stop, invoked, contexts, detector_calls,
                   last_check, summary_failed, result, rpc_response>>
    /\ UNCHANGED outside_engine

\* adapter.invoke raises an Exception
InvokeRaise(i) ==
    /\ pc = "round"
    /\ i \in inflight
    /\ inflight' = inflight \ {i}
    /\ responses' = OnAdapterError(responses, round_num, i)
    /\ idx' = idx + 1
    /\ outcomes' = Append(outcomes, [round |-> round_num, participant |-> i,
                                     raised |-> TRUE, text |-> ErrorText])
    /\ UNCHANGED <<request, config, pc, round_num, all_responses, final_convergence_info,
                   converged, model_controlled_stop, invoked, contexts, detector_calls,
                   last_check, summary_failed, result, rpc_response>>
    /\ UNCHANGED outside_engine

(***************************************************************************)
(* _check_early_stopping                                                   *)
(***************************************************************************)
\* mutant: one vote asking to stop is enough
ThresholdMet_AnyStopVote(want_to_stop, total_votes, threshold) == want_to_stop >= 1

\* stop_fraction >= early_stop_cfg.threshold, in percent
ThresholdMet(want_to_stop, total_votes, threshold) ==
    want_to_stop * 100 >= threshold * total_votes

\* mutant: early_stopping.enabled is not read
CheckEarlyStopping_IgnoresEnabled(round_responses, rn, min_rounds) ==
    IF ~config.present THEN FALSE
    ELSE IF config.early_stopping.respect_min_rounds /\ rn < min_rounds THEN FALSE
    ELSE LET votes == VotesOf(round_responses)
             want_to_stop == CountStop(votes)
             total_votes == Len(votes)
         IN  IF total_votes = 0 THEN FALSE
             ELSE ThresholdMet(want_to_stop, total_votes, config.early_stopping.threshold)

CheckEarlyStopping(round_responses, rn, min_rounds) ==
    IF ~config.present THEN FALSE
    ELSE IF ~config.early_stopping.enabled THEN FALSE
    ELSE IF config.early_stopping.respect_min_rounds /\ rn < min_rounds THEN FALSE
    ELSE LET votes == VotesOf(round_responses)
             want_to_stop == CountStop(votes)
             total_votes == Len(votes)
         IN  IF total_votes = 0 THEN FALSE
             ELSE ThresholdMet(want_to_stop, total_votes, config.early_stopping.threshold)

\* mutant: the configured default is passed instead of the request's round count
MinRoundsArg_Default == DefaultMinRounds

\* the min_rounds argument execute() passes to _check_early_stopping
MinRoundsArg == request.rounds

(***************************************************************************)
(* The round loop of execute()                                             *)
(***************************************************************************)
\* mutant: the detector is consulted from round 1
ConvergenceCheckDue_FromRound1(rn) == HasDetector /\ rn >= 1

\* "if self.convergence_detector and round_num >= 2"
ConvergenceCheckDue(rn) == HasDetector /\ rn >= 2

\* mutant: an impasse does not end the loop
ConvergenceBreaks_OnlyConverged(cr) == cr.converged

\* "if convergence_result.converged: break / elif status == 'impasse': break"
ConvergenceBreaks(cr) == cr.converged \/ cr.status = "impasse"

\* the loop goes on to the next round, or is exhausted
NextRound ==
    IF round_num < RoundsToExecute
    THEN /\ round_num' = round_num + 1
         /\ idx' = 0
         /\ responses' = <<>>
         /\ pc' = "round"
    ELSE /\ pc' = "post"
         /\ UNCHANGED <<round_num, idx, responses>>

\* execute_round has returned: extend, early-stop check, convergence check
EndRound ==
    /\ pc = "round"
    /\ idx = request.participants
    /\ inflight = {}
    /\ all_responses' = all_responses \o responses
    /\ IF CheckEarlyStopping(responses, round_num, MinRoundsArg)
       THEN /\ model_controlled_stop' = TRUE
            /\ pc' = "post"
            /\ UNCHANGED <<round_num, idx, responses, final_convergence_info, converged,
                           detector_calls, last_check>>
       ELSE IF ConvergenceCheckDue(round_num)
       THEN \E cr \in DetectorResults :
            /\ detector_calls' = detector_calls \cup {round_num}
            /\ last_check' = [round |-> round_num, status |-> cr.status]
            /\ final_convergence_info' =
                   IF cr = NoConvergence THEN final_convergence_info ELSE cr
            /\ converged' = (cr # NoConvergence /\ cr.converged)
            /\ UNCHANGED model_controlled_stop
            /\ IF cr # NoConvergence /\ ConvergenceBreaks(cr)
               THEN /\ pc' = "post"
                    /\ UNCHANGED <<round_num, idx, responses>>
               ELSE NextRound
       ELSE /\ NextRound
            /\ UNCHANGED <<final_convergence_info, converged, model_controlled_stop,
                           detector_calls, last_check>>
    /\ UNCHANGED <<request, config, inflight, invoked, contexts, outcomes, summary_failed,
                   result, rpc_response>>
    /\ UNCHANGED outside_engine

(***************************************************************************)
(* _aggregate_votes                                                        *)
(***************************************************************************)
\* mutant: tally[vote.option] = 1, the count is not incremented
Tally_NoIncrement(votes) ==
    [o \in Options |-> IF CountOption(votes, o) > 0 THEN 1 ELSE 0]

\* tally[vote.option] = tally.get(vote.option, 0) + 1 over the parsed votes;
\* an option with count 0 is no key of the dict
Tally(votes) == [o \in Options |-> CountOption(votes, o)]

\* the keys of the tally
TallyKeys(tally) == {o \in Options : tally[o] > 0}

\* max(tally.values()) of a non-empty tally
MaxVotes(tally) == CHOOSE m \in {tally[o] : o \in Options} : \A o \in Options : tally[o] <= m

\* mutant: one option of the highest count is taken, as max(tally, key=tally.get) would
Winners_FirstTop(tally) == {CHOOSE o \in TallyKeys(tally) : tally[o] = MaxVotes(tally)}

\* [opt for opt, count in tally.items() if count == max_votes]
Winners(tally) == {o \in TallyKeys(tally) : tally[o] = MaxVotes(tally)}

AggregateVotes(rs) ==
    LET votes_by_round == VotesOf(rs)
        tally == Tally(votes_by_round)
        keys == TallyKeys(tally)
        winners == Winners(tally)
    IN  IF votes_by_round = <<>> THEN NoVotingResult
        ELSE IF Cardinality(keys) = 1
        THEN [present |-> TRUE, final_tally |-> tally, votes_by_round |-> votes_by_round,
              consensus_reached |-> TRUE, winning_option |-> CHOOSE o \in keys : TRUE]
        ELSE IF Cardinality(keys) > 1
        THEN IF Cardinality(winners) = 1
             THEN [present |-> TRUE, final_tally |-> tally, votes_by_round |-> votes_by_round,
                   consensus_reached |-> TRUE, winning_option |-> CHOOSE o \in winners : TRUE]
             ELSE [present |-> TRUE, final_tally |-> tally, votes_by_round |-> votes_by_round,
                   consensus_reached |-> FALSE, winning_option |-> None]
        ELSE [present |-> TRUE, final_tally |-> tally, votes_by_round |-> votes_by_round,
              consensus_reached |-> FALSE, winning_option |-> None]

(***************************************************************************)
(* The end of execute(): rounds completed, summary, votes, convergence     *)
(* info, result                                                            *)
(***************************************************************************)
\* is_early_stop
IsEarlyStop ==
    \/ converged
    \/ model_controlled_stop
    \/ (final_convergence_info # NoConvergence /\ final_convergence_info.status = "impasse")

\* mutant: the break is not taken into account
ActualRoundsCompleted_Requested == RoundsToExecute

\* actual_rounds_completed
ActualRoundsCompleted == IF IsEarlyStop THEN round_num ELSE RoundsToExecute

\* what the summary step meets: generate_summary returns, generate_summary
\* raises, or the engine was built without a summarizer
SummarizerOutcomes == {"returned", "raised", "absent"}

\* mutant: the except branch leaves no summary
SummaryAfter_NoPlaceholder(outcome) ==
    IF outcome = "returned" THEN "generated"
    ELSE IF outcome = "raised" THEN None
    ELSE "[Summary generation not available - Claude adapter required]"

\* Summary.consensus after the summary step
SummaryAfter(outcome) ==
    IF outcome = "returned" THEN "generated"
    ELSE IF outcome = "raised" THEN "[Summary generation failed]"
    ELSE "[Summary generation not available - Claude adapter required]"

\* mutant: an error entry in the debate fails the result
ResultStatus_FailedOnError(rs) ==
    IF \E k \in DOMAIN rs : rs[k].response.err THEN "failed" ELSE "complete"

\* status of the DeliberationResult that execute() builds
ResultStatus(rs) == "complete"

\* mutant: a detector result, when there is one, decides the status before the votes
BuildConvergenceInfo_DetectorFirst(voting_result, fci, rounds_completed) ==
    IF fci = NoConvergence /\ ~voting_result.present THEN NoConvergenceInfo
    ELSE LET sd ==
                 IF fci # NoConvergence THEN <<fci.status, fci.converged>>
                 ELSE IF voting_result.consensus_reached
                         /\ Cardinality(TallyKeys(voting_result.final_tally)) = 1
                 THEN <<"unanimous_consensus", TRUE>>
                 ELSE IF voting_result.consensus_reached THEN <<"majority_decision", TRUE>>
                 ELSE <<"tie", FALSE>>
         IN  [present |-> TRUE, detected |-> sd[2],
              detection_round |-> IF sd[2] THEN rounds_completed ELSE 0,
              status |-> sd[1]]

\* ConvergenceInfo built from the voting result and the last detector result
BuildConvergenceInfo(voting_result, fci, rounds_completed) ==
    IF fci = NoConvergence /\ ~voting_result.present THEN NoConvergenceInfo
    ELSE LET sd ==
                 IF voting_result.present
                 THEN IF voting_result.consensus_reached
                         /\ Cardinality(TallyKeys(voting_result.final_tally)) = 1
                      THEN <<"unanimous_consensus", TRUE>>
                      ELSE IF voting_result.consensus_reached
                              /\ voting_result.winning_option # None
                      THEN <<"majority_decision", TRUE>>
                      ELSE IF voting_result.winning_option = None
                      THEN <<"tie", FALSE>>
                      ELSE IF fci # NoConvergence THEN <<fci.status, fci.converged>>
                      ELSE <<"unknown", FALSE>>
                 ELSE <<fci.status, fci.converged>>
         IN  [present |-> TRUE, detected |-> sd[2],
              detection_round |-> IF sd[2] THEN rounds_completed ELSE 0,
              status |-> sd[1]]

\* everything after the loop, up to the return
Finish(outcome) ==
    /\ pc = "post"
    /\ LET voting_result == AggregateVotes(all_responses)
       IN  result' =
               [status |-> ResultStatus(all_responses),
                mode |-> request.mode,
                rounds_completed |-> ActualRoundsCompleted,
                participants |-> request.participants,
                summary |-> SummaryAfter(outcome),
                full_debate |-> all_responses,
                voting_result |-> voting_result,
                convergence_info |->
                    BuildConvergenceInfo(voting_result, final_convergence_info,
                                         ActualRoundsCompleted)]
    /\ summary_failed' = (outcome = "raised")
    /\ pc' = "done"
    /\ UNCHANGED <<request, config, round_num, idx, responses, inflight, all_responses,
                   final_convergence_info, converged, model_controlled_stop, invoked,
                   contexts, outcomes, detector_calls, last_check, rpc_response>>
    /\ UNCHANGED outside_engine

Next ==
    \/ \E i \in Participants : StartInvoke(i)
    \/ \E i \in Participants, text \in AdapterTexts : InvokeReturn(i, text)
    \/ \E i \in Participants : InvokeRaise(i)
    \/ EndRound
    \/ \E outcome \in SummarizerOutcomes : Finish(outcome)

Spec == Init /\ [][Next]_vars

(***************************************************************************)
(* The end of execute() on its own: _aggregate_votes and the ConvergenceInfo *)
(* are functions of all_responses and of the last detector result.         *)
(* SpecVotes starts where the round loop has run every requested round of  *)
(* a conference of MinParticipants participants, with the accumulated      *)
(* responses drawn from VoteTexts, and applies the rest of execute().      *)
(***************************************************************************)
\* texts of the responses: a vote for each option, or no vote
VoteTexts ==
    { [err |-> FALSE, marker |-> Marker(o, TRUE, TRUE)] : o \in Options } \cup {ErrorText}

\* the detector's last result when no break ended the loop
NonBreakingResults == {cr \in DetectorResults : cr = NoConvergence \/ ~ConvergenceBreaks(cr)}

\* all_responses after n rounds of MinParticipants participants answering texts[k]
DebateOf(texts) ==
    [k \in DOMAIN texts |->
        RoundResponse(((k - 1) \div MinParticipants) + 1, ((k - 1) % MinParticipants) + 1,
                      texts[k])]

InitVotes ==
    /\ request \in {r \in Requests : r.mode = "conference" /\ r.participants = MinParticipants}
    /\ config \in {c \in Configs : ~c.early_stopping.enabled}
    /\ pc = "post"
    /\ round_num = request.rounds
    /\ idx = request.participants
    /\ inflight = {}
    /\ \E texts \in [1 .. request.rounds * request.participants -> VoteTexts] :
          /\ all_responses = DebateOf(texts)
          /\ responses = [k \in 1 .. request.participants |->
                             DebateOf(texts)[(request.rounds - 1) * request.participants + k]]
          /\ outcomes = [k \in DOMAIN texts |->
                            [round |-> DebateOf(texts)[k].round,
                             participant |-> DebateOf(texts)[k].participant,
                             raised |-> texts[k].err, text |-> texts[k]]]
    /\ final_convergence_info \in
           IF HasDetector /\ request.rounds >= 2 THEN NonBreakingResults ELSE {NoConvergence}
    /\ converged = FALSE
    /\ model_controlled_stop = FALSE
    /\ invoked = (1 .. request.rounds) \X (1 .. request.participants)
    /\ contexts = [k \in 1 .. Len(all_responses) |->
                      [round |-> all_responses[k].round,
                       participant |-> all_responses[k].participant,
                       context |-> ContextOf(SubSeq(all_responses, 1,
                                      (all_responses[k].round - 1) * request.participants))]]
    /\ detector_calls = IF HasDetector THEN 2 .. request.rounds ELSE {}
    /\ last_check \in
           IF HasDetector /\ request.rounds >= 2
           THEN {[round |-> request.rounds, status |-> s] :
                    s \in IF final_convergence_info = NoConvergence THEN {None}
                          ELSE IF request.rounds >= 3
                          THEN {None, final_convergence_info.status}
                          ELSE {final_convergence_info.status}}
           ELSE {[round |-> 0, status |-> None]}
    /\ summary_failed = FALSE
    /\ result = NoResult
    /\ rpc_response = NoResponse
    /\ OutsideEngineIdle

NextVotes == \E outcome \in SummarizerOutcomes : Finish(outcome)

SpecVotes == InitVotes /\ [][NextVotes]_vars

(***************************************************************************)
(* call_tool("deliberate"): the response built from the result             *)
(***************************************************************************)
\* mcp.max_rounds_in_response: a configured value and the default
ResponseCaps == {2, DefaultMaxRoundsInResponse}

\* RoundResponse.model_dump(): the dict of the fields
ModelDump(r) == [round |-> r.round, participant |-> r.participant, response |-> r.response]

\* full_debate[-max_rounds:] of a list longer than max_rounds
LastEntries(full_debate, max_rounds) ==
    SubSeq(full_debate, Len(full_debate) - max_rounds + 1, Len(full_debate))

\* the part of call_tool after engine.execute has returned: result_dict with the
\* keys the truncation sets
TruncateForResponse(deliberation_result, max_rounds) ==
    IF Len(deliberation_result.full_debate) > max_rounds
    THEN [present |-> TRUE, max_rounds |-> max_rounds,
          full_debate |->
              [k \in 1 .. max_rounds |->
                  ModelDump(LastEntries(deliberation_result.full_debate, max_rounds)[k])],
          full_debate_truncated |-> TRUE,
          has_total_rounds |-> TRUE,
          total_rounds |-> Len(deliberation_result.full_debate)]
    ELSE [present |-> TRUE, max_rounds |-> max_rounds,
          full_debate |-> [k \in DOMAIN deliberation_result.full_debate |->
                              ModelDump(deliberation_result.full_debate[k])],
          full_debate_truncated |-> FALSE,
          has_total_rounds |-> FALSE,
          total_rounds |-> 0]

\* call_tool goes on after "result = await engine.execute(request)"
CallToolResponds(max_rounds) ==
    /\ pc = "done"
    /\ ~rpc_response.present
    /\ rpc_response' = TruncateForResponse(result, max_rounds)
    /\ UNCHANGED <<request, config, pc, round_num, idx, responses, inflight, all_responses,
                   final_convergence_info, converged, model_controlled_stop, invoked,
                   contexts, outcomes, detector_calls, last_check, summary_failed, result>>
    /\ UNCHANGED outside_engine

\* the loop of execute() has ended after all requested rounds, each response a vote
\* that continues or an error text
InitResponse ==
    /\ InitVotes
    /\ \A k \in DOMAIN all_responses :
           all_responses[k].response \in {ErrorText, [err |-> FALSE, marker |-> Marker("A", TRUE, TRUE)]}

NextResponse ==
    \/ \E outcome \in SummarizerOutcomes : Finish(outcome)
    \/ \E max_rounds \in ResponseCaps : CallToolResponds(max_rounds)

SpecResponse == InitResponse /\ [][NextResponse]_vars

(***************************************************************************)
(* Properties of the engine                                                *)
(***************************************************************************)
\* execute() has returned its result
Done == pc = "done"

\* positions of the result's full_debate that hold the entry of participant i in round r
EntriesOf(r, i) ==
    {k \in DOMAIN result.full_debate :
        result.full_debate[k].round = r /\ result.full_debate[k].participant = i}

\* positions of all_responses that hold a vote of round r that parses
ParsedVotesOfRound(r) ==
    {k \in DOMAIN all_responses :
        /\ all_responses[k].round = r
        /\ all_responses[k].response.marker.present
        /\ all_responses[k].response.marker.valid}

\* those of them that ask to stop
StopVotesOfRound(r) ==
    {k \in ParsedVotesOfRound(r) : ~all_responses[k].response.marker.continue_debate}

\* round r has parsed votes and the fraction of them asking to stop reaches the threshold
StopFractionReached(r) ==
    /\ ParsedVotesOfRound(r) # {}
    /\ Cardinality(StopVotesOfRound(r)) * 100
           >= config.early_stopping.threshold * Cardinality(ParsedVotesOfRound(r))

\* the loop was left by a convergence or impasse break
ConvergenceStop == converged \/ final_convergence_info.status = "impasse"

\* an invocation was made for a round after r
InvokedAfter(r) == \E p \in invoked : p[1] > r

\* C1: rounds_completed is at least 1 and at most the requested round count,
\* and in quick mode it is exactly 1 whatever round count was requested.
C1_RoundsCompletedInRange ==
    Done =>
        /\ result.rounds_completed >= 1
        /\ result.rounds_completed <= request.rounds
        /\ (request.mode = "quick" => result.rounds_completed = 1)

C1_Witness ==
    /\ Done
    /\ request.mode = "quick"
    /\ request.rounds = 3
    /\ result.rounds_completed = 1

\* C2: the full debate has rounds_completed * participants entries, exactly one
\* per participant and executed round, an error entry counting like any other.
C2_DebateLength ==
    Done =>
        /\ Len(result.full_debate) = result.rounds_completed * request.participants
        /\ \A r \in 1 .. result.rounds_completed : \A i \in Participants :
               Cardinality(EntriesOf(r, i)) = 1

C2_Witness ==
    /\ Done
    /\ result.rounds_completed >= 2
    /\ \E k \in DOMAIN result.full_debate : result.full_debate[k].response.err
    /\ Len(result.full_debate) = result.rounds_completed * request.participants

\* finished invocations, as <<round, participant>>
Completed == {<<outcomes[k].round, outcomes[k].participant>> : k \in DOMAIN outcomes}

\* <<r1, i1>> comes before <<r2, i2>> in round order, then request order
Before(p, q) == p[1] < q[1] \/ (p[1] = q[1] /\ p[2] < q[2])

\* C3: adapter invocations are strictly sequential: at most one is awaited at a
\* time, and while the invocation of participant i in round r is awaited, every
\* invocation of an earlier round and of an earlier participant of round r has
\* completed.
C3_SequentialInvocations ==
    /\ Cardinality(invoked \ Completed) <= 1
    /\ \A q \in invoked \ Completed :
           \A r \in 1 .. q[1] : \A i \in Participants :
               Before(<<r, i>>, q) => <<r, i>> \in Completed

C3_Witness ==
    /\ round_num = 2
    /\ invoked \ Completed = {<<2, 2>>}
    /\ <<2, 1>> \in Completed

\* C4: an adapter failure does not abort the deliberation: the failed
\* invocation's entry is the error text, every returned text is kept as it was
\* returned, every participant of every completed round was invoked, and the
\* result is "complete".
C4_AdapterFailureContained ==
    Done =>
        /\ result.status = "complete"
        /\ Len(result.full_debate) = Len(outcomes)
        /\ \A k \in DOMAIN outcomes :
               /\ k \in DOMAIN result.full_debate
               /\ result.full_debate[k].round = outcomes[k].round
               /\ result.full_debate[k].participant = outcomes[k].participant
               /\ result.full_debate[k].response =
                      IF outcomes[k].raised THEN ErrorText ELSE outcomes[k].text
        /\ \A r \in 1 .. result.rounds_completed : \A i \in Participants :
               <<r, i>> \in invoked /\ <<r, i>> \in Completed

C4_Witness ==
    /\ Done
    /\ result.rounds_completed = 3
    /\ result.status = "complete"
    /\ \A k \in DOMAIN outcomes : outcomes[k].raised <=> outcomes[k].participant = 1
    /\ Len(result.full_debate) = 6

\* C5: with early stopping enabled, a round r at or after the configured
\* minimum (2) whose stop fraction reaches the threshold is the last round:
\* nobody is invoked for a later round and rounds_completed = r.
C5_StopAtConfiguredMinimum ==
    \A r \in DefaultMinRounds .. MaxRounds :
        (config.present /\ config.early_stopping.enabled /\ StopFractionReached(r)) =>
            /\ ~InvokedAfter(r)
            /\ (Done => result.rounds_completed = r)

EffectiveRounds == IF request.mode = "quick" THEN 1 ELSE request.rounds

\* C7: a model-controlled stop is taken only with early stopping enabled and the
\* stop fraction of the current round at the threshold; with early stopping
\* disabled, or with no round reaching the threshold, and without a convergence
\* or impasse break, all rounds are executed.
C7_StopOnlyAtThreshold ==
    /\ model_controlled_stop =>
           (config.present /\ config.early_stopping.enabled /\ StopFractionReached(round_num))
    /\ ( /\ Done
         /\ ~ConvergenceStop
         /\ \/ ~(config.present /\ config.early_stopping.enabled)
            \/ \A r \in 1 .. MaxRounds : ~StopFractionReached(r) ) =>
           /\ ~model_controlled_stop
           /\ result.rounds_completed = EffectiveRounds
           /\ Len(result.full_debate) = EffectiveRounds * request.participants

C7_Witness ==
    /\ Done
    /\ config.present /\ config.early_stopping.enabled
    /\ ~config.early_stopping.respect_min_rounds
    /\ request.mode = "conference" /\ request.rounds = 3
    /\ \A r \in 1 .. 3 : StopVotesOfRound(r) # {} /\ ~StopFractionReached(r)
    /\ result.rounds_completed = 3

\* C8: when the convergence check of a round r >= 2 reports converged or
\* impasse, round r is the last round and rounds_completed = r; the flag
\* converged is set exactly in the converged case; after refining or diverging
\* the loop goes on to round r + 1 if there is one.
C8_ConvergenceBreak ==
    /\ (last_check.round >= 2 /\ last_check.status \in {"converged", "impasse"}) =>
           /\ pc \in {"post", "done"}
           /\ round_num = last_check.round
           /\ ~InvokedAfter(last_check.round)
           /\ (Done => result.rounds_completed = last_check.round)
    /\ converged <=> last_check.status = "converged"
    /\ (last_check.round >= 2 /\ last_check.status \in {"refining", "diverging"}) =>
           IF last_check.round < EffectiveRounds
           THEN round_num = last_check.round + 1
           ELSE pc \in {"post", "done"} /\ ~converged

C8_Witness ==
    /\ Done
    /\ request.rounds = 3
    /\ last_check = [round |-> 2, status |-> "impasse"]
    /\ result.rounds_completed = 2
    /\ ~converged

\* C9: the convergence detector is never consulted for round 1, and not at
\* all in a deliberation of a single round (rounds = 1, or quick mode).
C9_NoDetectorInRound1 ==
    /\ \A r \in detector_calls : r >= 2
    /\ (request.rounds = 1 \/ request.mode = "quick") => detector_calls = {}

C9_Witness ==
    /\ Done
    /\ HasDetector
    /\ request.mode = "quick"
    /\ request.rounds = 3
    /\ detector_calls = {}

RECURSIVE SumOver(_, _)
\* the sum of f over the set S
SumOver(f, S) ==
    IF S = {} THEN 0
    ELSE LET x == CHOOSE y \in S : TRUE IN f[x] + SumOver(f, S \ {x})

\* positions of the full debate whose text carries a vote that parses
ParsedPositions ==
    {k \in DOMAIN result.full_debate :
        /\ result.full_debate[k].response.marker.present
        /\ result.full_debate[k].response.marker.valid}

\* C10: the counts of final_tally sum to the number of parsed votes of all
\* rounds, which is the length of votes_by_round, and a round contributes at
\* most one vote per participant.
C10_TallySumsToVotes ==
    (Done /\ result.voting_result.present) =>
        LET vr == result.voting_result IN
        /\ SumOver(vr.final_tally, Options) = Len(vr.votes_by_round)
        /\ Len(vr.votes_by_round) = Cardinality(ParsedPositions)
        /\ \A r \in 1 .. MaxRounds :
               /\ Cardinality({k \in DOMAIN vr.votes_by_round : vr.votes_by_round[k].round = r})
                      <= request.participants
               /\ \A i \in Participants :
                      Cardinality({k \in DOMAIN vr.votes_by_round :
                                      /\ vr.votes_by_round[k].round = r
                                      /\ vr.votes_by_round[k].participant = i}) <= 1

C10_Witness ==
    /\ Done
    /\ result.voting_result.present
    /\ result.rounds_completed = 3
    /\ Len(result.voting_result.votes_by_round) = 4
    /\ result.voting_result.final_tally["A"] = 3
    /\ \E k \in DOMAIN result.full_debate :
           /\ result.full_debate[k].response.marker.present
           /\ ~result.full_debate[k].response.marker.valid

(***************************************************************************)
(* Properties of the vote aggregation and the reported status              *)
(***************************************************************************)
\* option o is a key of the tally and its count is above every other count
StrictTop(tally, o) == tally[o] > 0 /\ \A p \in Options \ {o} : tally[p] < tally[o]

\* the parsed votes of the returned debate
ResultVotes == VotesOf(result.full_debate)

\* C11: consensus_reached is true exactly when the tally has a single option or
\* one option with a strictly highest count, and winning_option is then that
\* option; when the highest count is shared, winning_option is null and
\* consensus_reached is false.
C11_ConsensusIffStrictTop ==
    (Done /\ result.voting_result.present) =>
        LET vr == result.voting_result
        IN  /\ vr.consensus_reached <=> \E o \in Options : StrictTop(vr.final_tally, o)
            /\ \A o \in Options : StrictTop(vr.final_tally, o) => vr.winning_option = o
            /\ (~ \E o \in Options : StrictTop(vr.final_tally, o)) =>
                   (vr.winning_option = None /\ ~vr.consensus_reached)

\* a 2-2-1 tally: the highest count is shared above a third option
C11_Witness ==
    /\ Done
    /\ result.voting_result.present
    /\ result.voting_result.final_tally = [o \in Options |-> IF o = "C" THEN 1 ELSE 2]
    /\ result.voting_result.winning_option = None
    /\ ~result.voting_result.consensus_reached

\* C12: whenever a VotingResult exists the reported status is decided by the
\* votes: unanimous_consensus if all parsed votes chose one option,
\* majority_decision if one option holds a strict majority (of more than one
\* option voted), tie if the top count is shared; a status of the detector is
\* reported only when no VotingResult exists.
C12_StatusDecidedByVotes ==
    Done =>
        LET n == Len(ResultVotes)
            count(o) == CountOption(ResultVotes, o)
            status == result.convergence_info.status
        IN  /\ result.voting_result.present =>
                /\ result.convergence_info.present
                /\ (\E o \in Options : count(o) = n) => status = "unanimous_consensus"
                /\ (\E o \in Options : 2 * count(o) > n /\ count(o) < n) =>
                       status = "majority_decision"
                /\ (\E o \in Options, p \in Options :
                       /\ o # p
                       /\ count(o) = count(p)
                       /\ \A q \in Options : count(q) <= count(o)) => status = "tie"
            /\ (result.convergence_info.present /\ status \in DetectorStatuses) =>
                   ~result.voting_result.present

\* a 3-1 vote while the detector's last status was "refining"
C12_Witness ==
    /\ Done
    /\ final_convergence_info.status = "refining"
    /\ Len(ResultVotes) = 4
    /\ CountOption(ResultVotes, "A") = 3
    /\ CountOption(ResultVotes, "B") = 1
    /\ result.convergence_info.status = "majority_decision"

\* the round the loop was in when it ended, by a break or by exhaustion: the
\* round of the last entry of the returned debate
StoppingRound == result.full_debate[Len(result.full_debate)].round

\* C13: whenever convergence_info.detection_round is non-null, it equals the
\* round at which stopping occurred.
C13_DetectionRoundIsStoppingRound ==
    (Done /\ result.convergence_info.present /\ result.convergence_info.detection_round # 0) =>
        /\ result.convergence_info.detection_round = StoppingRound
        /\ ~ InvokedAfter(result.convergence_info.detection_round)

\* the detector reports convergence in round 2 of 3 and no vote was cast
C13_Witness ==
    /\ Done
    /\ request.rounds = 3
    /\ converged
    /\ ~result.voting_result.present
    /\ result.convergence_info.status = "converged"
    /\ result.convergence_info.detection_round = 2

\* C14: a failure of the summarizer never fails the deliberation: a placeholder
\* summary is produced, the full debate and the vote results are kept, and the
\* result status is 'complete'.
C14_SummarizerFailureContained ==
    (Done /\ summary_failed) =>
        /\ result.summary = "[Summary generation failed]"
        /\ result.status = "complete"
        /\ result.full_debate = all_responses
        /\ Len(result.full_debate) = result.rounds_completed * request.participants
        /\ result.voting_result.present = (ResultVotes # <<>>)
        /\ result.voting_result.votes_by_round = ResultVotes
        /\ \A o \in Options : result.voting_result.final_tally[o] = CountOption(ResultVotes, o)

\* the summarizer raises after two rounds in which votes were cast
C14_Witness ==
    /\ Done
    /\ summary_failed
    /\ result.rounds_completed = 2
    /\ Len(result.full_debate) = 4
    /\ result.voting_result.present
    /\ result.status = "complete"

(***************************************************************************)
(* BaseCLIAdapter.invoke and _read_with_activity_timeout                   *)
(***************************************************************************)
TRANSIENT_ERROR_PATTERNS ==
    {"503.*overload", "503.*over capacity", "503.*too many requests", "429.*rate limit",
     "temporarily unavailable", "service unavailable", "connection.*reset",
     "connection.*refused"}

\* what a process writes to stderr in the model, as lines: a short line that
\* matches no pattern; a rate-limit line; a line longer than MaxErrorChars that
\* matches no pattern; such a long line followed by an overload line
StderrTexts ==
    { <<[pattern |-> None, len |-> MaxErrorChars]>>,
      <<[pattern |-> "429.*rate limit", len |-> MaxErrorChars]>>,
      <<[pattern |-> None, len |-> MaxErrorChars + 1]>>,
      <<[pattern |-> None, len |-> MaxErrorChars + 1],
        [pattern |-> "503.*overload", len |-> MaxErrorChars]>> }

\* returncode of a process that has exited
ReturnCodes == {0, 1}

\* stderr.decode() of b"".join(stderr_chunks); chunks end at line ends
ErrorMsg(chunks) ==
    IF chunks = <<>> THEN <<>>
    ELSE IF Len(chunks) = 1 THEN chunks[1]
    ELSE chunks[1] \o chunks[2]

\* _is_transient_error: some pattern is found in the message
IsTransientError(error_msg) ==
    \E k \in DOMAIN error_msg : error_msg[k].pattern \in TRANSIENT_ERROR_PATTERNS

\* error_msg.split('\n')[0]
FirstLine(error_msg) == IF error_msg = <<>> THEN EmptyLine ELSE Head(error_msg)

\* line[:n]
Truncate(line, n) == [line EXCEPT !.len = IF @ > n THEN n ELSE @]

\* clean_error = error_msg.split('\n')[0][:150]
CleanError(error_msg) == Truncate(FirstLine(error_msg), MaxErrorChars)

\* mutant: the last attempt is retried as well
RetryAllowed_OneMore(is_transient, a) == is_transient /\ a <= max_retries

\* "if is_transient and attempt < self.max_retries"
RetryAllowed(is_transient, a) == is_transient /\ a < max_retries

\* wait_time = 2 ** attempt
WaitTime(a) == 2 ^ a

\* mutant: the hard timeout is not checked
TimeoutExceeded_ActivityOnly(inactive_time, elapsed) == inactive_time > ActivityTimeout

\* the two checks of the supervisor loop
TimeoutExceeded(inactive_time, elapsed) ==
    inactive_time > ActivityTimeout \/ elapsed > HardTimeout

\* one iteration of the retry loop begins: create_subprocess_exec, then
\* _read_with_activity_timeout up to its first asyncio.sleep(0.5)
StartAttempt ==
    /\ invoke_pc \in {"idle", "backoff"}
    /\ attempt' = IF invoke_pc = "idle" THEN 0 ELSE attempt + 1
    /\ spawned' = spawned + 1
    /\ now' = 0
    /\ start_time' = 0
    /\ last_activity' = 0
    /\ stdout_chunks' = 0
    /\ stderr_chunks' = <<>>
    /\ stdout_done' = FALSE
    /\ stderr_done' = FALSE
    /\ timed_out' = FALSE
    /\ killed' = FALSE
    /\ invoke_pc' = "reading"
    /\ UNCHANGED <<max_retries, sleeps, invoke_result>>
    /\ UNCHANGED outside_adapter

\* read_stream(process.stdout) reads a non-empty chunk
ReadStdout ==
    /\ invoke_pc = "reading"
    /\ ~stdout_done
    /\ stdout_chunks < MaxChunks
    /\ stdout_chunks' = stdout_chunks + 1
    /\ last_activity' = now
    /\ UNCHANGED <<invoke_pc, max_retries, attempt, now, start_time, stderr_chunks,
                   stdout_done, stderr_done, timed_out, killed, spawned, sleeps,
                   invoke_result>>
    /\ UNCHANGED outside_adapter

\* read_stream(process.stderr) reads a non-empty chunk
ReadStderr(text) ==
    /\ invoke_pc = "reading"
    /\ ~stderr_done
    /\ Len(stderr_chunks) < MaxStderrChunks
    /\ stderr_chunks' = Append(stderr_chunks, text)
    /\ last_activity' = now
    /\ UNCHANGED <<invoke_pc, max_retries, attempt, now, start_time, stdout_chunks,
                   stdout_done, stderr_done, timed_out, killed, spawned, sleeps,
                   invoke_result>>
    /\ UNCHANGED outside_adapter

\* read_stream(process.stdout) reads b"" and its task ends
EofStdout ==
    /\ invoke_pc = "reading"
    /\ ~stdout_done
    /\ stdout_done' = TRUE
    /\ UNCHANGED <<invoke_pc, max_retries, attempt, now, start_time, last_activity,
                   stdout_chunks, stderr_chunks, stderr_done, timed_out, killed, spawned,
                   sleeps, invoke_result>>
    /\ UNCHANGED outside_adapter

\* read_stream(process.stderr) reads b"" and its task ends
EofStderr ==
    /\ invoke_pc = "reading"
    /\ ~stderr_done
    /\ stderr_done' = TRUE
    /\ UNCHANGED <<invoke_pc, max_retries, attempt, now, start_time, last_activity,
                   stdout_chunks, stderr_chunks, stdout_done, timed_out, killed, spawned,
                   sleeps, invoke_result>>
    /\ UNCHANGED outside_adapter

\* the supervisor wakes from asyncio.sleep(0.5): the two timeout checks, then
\* the loop condition.  On a timeout: kill, cancel the readers, return
\* timed_out, and invoke raises TimeoutError
SupervisorPoll ==
    /\ invoke_pc = "reading"
    /\ now' = now + 1
    /\ IF TimeoutExceeded(now' - last_activity, now' - start_time)
       THEN /\ timed_out' = TRUE
            /\ killed' = TRUE
            /\ invoke_pc' = "raised"
            /\ invoke_result' = [kind |-> "TimeoutError", output |-> 0, error |-> EmptyLine]
       ELSE /\ invoke_pc' = IF stdout_done /\ stderr_done THEN "waiting" ELSE "reading"
            /\ UNCHANGED <<timed_out, killed, invoke_result>>
    /\ UNCHANGED <<max_retries, attempt, start_time, last_activity, stdout_chunks,
                   stderr_chunks, stdout_done, stderr_done, spawned, sleeps>>
    /\ UNCHANGED outside_adapter

\* "await process.wait()" returns after the loop was left without timeout, and
\* invoke looks at the return code
ProcessExit(returncode) ==
    /\ invoke_pc = "waiting"
    /\ IF returncode # 0
       THEN LET error_msg == ErrorMsg(stderr_chunks)
            IN  IF RetryAllowed(IsTransientError(error_msg), attempt)
                THEN /\ sleeps' = Append(sleeps, WaitTime(attempt))
                     /\ invoke_pc' = "backoff"
                     /\ UNCHANGED invoke_result
                ELSE /\ invoke_pc' = "raised"
                     /\ invoke_result' = [kind |-> "RuntimeError", output |-> 0,
                                          error |-> CleanError(error_msg)]
                     /\ UNCHANGED sleeps
       ELSE /\ invoke_pc' = "returned"
            /\ invoke_result' = [kind |-> "success", output |-> stdout_chunks,
                                 error |-> EmptyLine]
            /\ UNCHANGED sleeps
    /\ UNCHANGED <<max_retries, attempt, now, start_time, last_activity, stdout_chunks,
                   stderr_chunks, stdout_done, stderr_done, timed_out, killed, spawned>>
    /\ UNCHANGED outside_adapter

\* the engine before execute() is called on a request
EngineIdle ==
    /\ request = [rounds |-> 1, mode |-> "quick", participants |-> MinParticipants]
    /\ config = NoConfig
    /\ pc = "round"
    /\ round_num = 1
    /\ idx = 0
    /\ responses = <<>>
    /\ inflight = {}
    /\ all_responses = <<>>
    /\ final_convergence_info = NoConvergence
    /\ converged = FALSE
    /\ model_controlled_stop = FALSE
    /\ invoked = {}
    /\ contexts = <<>>
    /\ outcomes = <<>>
    /\ detector_calls = {}
    /\ last_check = [round |-> 0, status |-> None]
    /\ summary_failed = FALSE
    /\ result = NoResult
    /\ rpc_response = NoResponse

InitAdapter == AdapterInit /\ EngineIdle /\ FactoryIdle /\ ToolsInit /\ FormatIdle /\ GraphIdle

NextAdapter ==
    \/ StartAttempt
    \/ ReadStdout
    \/ \E text \in StderrTexts : ReadStderr(text)
    \/ EofStdout
    \/ EofStderr
    \/ SupervisorPoll
    \/ \E returncode \in ReturnCodes : ProcessExit(returncode)

SpecAdapter == InitAdapter /\ [][NextAdapter]_vars

(***************************************************************************)
(* Properties of the subprocess adapter                                    *)
(***************************************************************************)
\* stderr of the attempt that ended last
LastError == ErrorMsg(stderr_chunks)

\* the first line of that stderr
LastErrorFirstLine == IF LastError = <<>> THEN EmptyLine ELSE LastError[1]

\* invoke raised the RuntimeError of a failed process
RaisedRuntimeError == invoke_pc = "raised" /\ invoke_result.kind = "RuntimeError"

\* the retry part of C15: a sleep of 2^attempt seconds before every retry, a
\* retry only after a transient error with attempts remaining, and no attempt
\* after the runtime error
RetryDiscipline ==
    /\ \A k \in DOMAIN sleeps : sleeps[k] = 2 ^ (k - 1)
    /\ Len(sleeps) <= max_retries
    /\ invoke_pc \in {"reading", "waiting"} => (spawned = Len(sleeps) + 1 /\ attempt = Len(sleeps))
    /\ invoke_pc = "backoff" =>
           /\ IsTransientError(LastError)
           /\ attempt < max_retries
           /\ Len(sleeps) = attempt + 1
           /\ sleeps[Len(sleeps)] = 2 ^ attempt
    /\ RaisedRuntimeError =>
           /\ ~IsTransientError(LastError) \/ attempt = max_retries
           /\ spawned = attempt + 1
           /\ Len(sleeps) = attempt

\* C15 as stated: after a non-zero exit the adapter sleeps 2^attempt seconds and
\* retries if stderr is transient and attempts remain; otherwise it raises a
\* runtime error containing the first line of stderr and makes no further attempt.
C15_ErrorHasFirstLine ==
    /\ RetryDiscipline
    /\ RaisedRuntimeError => invoke_result.error = LastErrorFirstLine

\* C15 amended: as stated, with the runtime error containing the first
\* MaxErrorChars characters of the first line of stderr.
C15_RetryThenTruncatedFirstLine ==
    /\ RetryDiscipline
    /\ RaisedRuntimeError =>
           /\ invoke_result.error.pattern = LastErrorFirstLine.pattern
           /\ invoke_result.error.len =
                  IF LastErrorFirstLine.len <= MaxErrorChars
                  THEN LastErrorFirstLine.len ELSE MaxErrorChars

\* two transient failures were retried after sleeps of 1 and 2 seconds, the
\* third attempt failed the same way, and the first line was longer than the cut
C15_Witness ==
    /\ RaisedRuntimeError
    /\ max_retries = 2
    /\ sleeps = <<1, 2>>
    /\ spawned = 3
    /\ IsTransientError(LastError)
    /\ LastErrorFirstLine.len > MaxErrorChars
    /\ invoke_result.error.len = MaxErrorChars

C17_BothEofNeverTimeout ==
    (stdout_done /\ stderr_done) =>
        (~killed /\ ~timed_out /\ invoke_result.kind # "TimeoutError")

(***************************************************************************)
(* The adapter factory (src/adapters/__init__.py).  create_adapter is      *)
(* modelled from the source; create_adapter_with_fallback, the PATH probe  *)
(* and the fallback table are not in the source and are modelled from the  *)
(* specification and from tests/unit/test_cli_fallback.py.                 *)
(***************************************************************************)
Created(cls) == [raised |-> FALSE, adapter |-> cls, error |-> None]

Raised(exc) == [raised |-> TRUE, adapter |-> None, error |-> exc]

\* the HTTP branch looks the name up in the CLI registry
CreateAdapter_HttpFromCliRegistry(name, adapter_config) ==
    IF adapter_config \in {"cli_tool", "cli"}
    THEN IF name \in DOMAIN cli_adapters
         THEN Created(cli_adapters[name]) ELSE Raised("ValueError")
    ELSE IF adapter_config = "http"
    THEN IF name \in DOMAIN cli_adapters
         THEN Created(cli_adapters[name]) ELSE Raised("ValueError")
    ELSE Raised("TypeError")

\* create_adapter(name, adapter_config): the adapter instantiated or the exception raised
CreateAdapter(name, adapter_config) ==
    IF adapter_config = "cli_tool"
    THEN IF name \in DOMAIN cli_adapters
         THEN Created(cli_adapters[name]) ELSE Raised("ValueError")
    ELSE IF adapter_config = "cli"
    THEN IF name \notin DOMAIN cli_adapters
         THEN Raised("ValueError") ELSE Created(cli_adapters[name])
    ELSE IF adapter_config = "http"
    THEN IF name \notin DOMAIN http_adapters
         THEN Raised("ValueError") ELSE Created(http_adapters[name])
    ELSE Raised("TypeError")

\* the fallback model on the gateway of each CLI provider that has one; the tests
\* fix the ids of claude and droid and only the form provider/model of the others
CLI_TO_OPENROUTER_FALLBACK ==
    [n \in {"claude", "codex", "droid", "gemini"} |->
        CASE n = "claude" -> "anthropic/claude-sonnet-4"
          [] n = "droid" -> "anthropic/claude-3.5-sonnet"
          [] n = "codex" -> "provider/model-for-codex"
          [] n = "gemini" -> "provider/model-for-gemini"]

FallbackModel(name) ==
    IF name \in DOMAIN CLI_TO_OPENROUTER_FALLBACK
    THEN CLI_TO_OPENROUTER_FALLBACK[name] ELSE None

IsCliConfig(adapter_config) == adapter_config \in {"cli", "cli_tool"}

\* the result of a factory call: what was created or raised, the fallback model
\* recorded, and whether the PATH probe was consulted
FactoryResult(fn, made, fallback_model, checked) ==
    [fn |-> fn, raised |-> made.raised, adapter |-> made.adapter,
     fallback_model |-> fallback_model, error |-> made.error,
     availability_checked |-> checked]

\* create_adapter_with_fallback(name, config, check_cli_availability): the results it
\* may give.  When the CLI is absent, no fallback model is known and no API key is set,
\* either of the two errors may be the one reported.
CreateAdapterWithFallback(c) ==
    LET fn == "create_adapter_with_fallback"
        fallback == FallbackModel(c.name)
        errors == (IF fallback = None THEN {"RuntimeError: no fallback available"} ELSE {})
                  \cup (IF ~c.api_key_set
                        THEN {"RuntimeError: not installed, set OPENROUTER_API_KEY"} ELSE {})
    IN  IF ~IsCliConfig(c.config) \/ ~c.check_cli_availability
        THEN {FactoryResult(fn, CreateAdapter(c.name, c.config), None, FALSE)}
        ELSE IF c.cli_available
        THEN {FactoryResult(fn, CreateAdapter(c.name, c.config), None, TRUE)}
        ELSE IF errors = {}
        THEN {FactoryResult(fn, Created("OpenRouterAdapter"), fallback, TRUE)}
        ELSE {FactoryResult(fn, Raised(e), None, TRUE) : e \in errors}

\* create_adapter is called directly
CallCreateAdapter ==
    /\ factory_pc = "idle"
    /\ factory_result' = FactoryResult("create_adapter",
                                       CreateAdapter(factory_call.name, factory_call.config),
                                       None, FALSE)
    /\ factory_pc' = "done"
    /\ UNCHANGED <<factory_call, outside_factory>>

\* create_adapter_with_fallback is called with one of the three config types
CallCreateAdapterWithFallback ==
    /\ factory_pc = "idle"
    /\ factory_call.config # "other"
    /\ factory_result' \in CreateAdapterWithFallback(factory_call)
    /\ factory_pc' = "done"
    /\ UNCHANGED <<factory_call, outside_factory>>

InitFactory == FactoryInit /\ EngineIdle /\ AdapterIdle /\ ToolsInit /\ FormatIdle /\ GraphIdle

NextFactory == CallCreateAdapter \/ CallCreateAdapterWithFallback

SpecFactory == InitFactory /\ [][NextFactory]_vars

(***************************************************************************)
(* Claims about the adapter factory                                        *)
(***************************************************************************)
\* create_adapter_with_fallback has returned or raised
FallbackCallDone ==
    factory_pc = "done" /\ factory_result.fn = "create_adapter_with_fallback"

\* the PATH probe decides: a CLI config and check_cli_availability set
ProbeDecides ==
    IsCliConfig(factory_call.config) /\ factory_call.check_cli_availability

ToolNames == {"read_file", "run_command"}

\* directories a caller passes
Dirs == {"/repo/a", "/repo/b"}

\* the working_directory argument: absent (the default) or a directory
WorkingDirectories == {None} \cup Dirs

\* how tool.execute ends: a ToolResult of success, one of failure, or an exception
ToolOutcomes == {"success", "failure", "exception"}

\* Python's truth value of the working_directory argument
Truthy(dir) == dir \notin {None, ""}

\* os.chdir succeeds or raises; it is not called for an argument that is not truthy
ChdirOutcomes(dir) == IF Truthy(dir) THEN BOOLEAN ELSE {TRUE}

\* run_command awaits its subprocess; read_file has no await that suspends
MaySuspend(name) == name = "run_command"

\* the ToolResult for a request whose tool is not registered
NotRegistered(name) ==
    [present |-> TRUE, raised |-> FALSE, tool_name |-> name, success |-> FALSE,
     error |-> "Tool is not registered"]

\* the ToolResult when os.chdir(working_directory) raises
FailedSwitch(name) ==
    [present |-> TRUE, raised |-> FALSE, tool_name |-> name, success |-> FALSE,
     error |-> "Failed to change to working directory"]

\* the exception of the tool leaves execute_tool
OnToolException_Propagates(name) ==
    [present |-> FALSE, raised |-> TRUE, tool_name |-> None, success |-> FALSE,
     error |-> None]

\* the except branch around tool.execute
OnToolException(name) ==
    [present |-> TRUE, raised |-> FALSE, tool_name |-> name, success |-> FALSE,
     error |-> "ValueError: Something went wrong"]

\* what execute_tool gives back when tool.execute ended with outcome
ToolResultOf(name, outcome) ==
    CASE outcome = "success" ->
           [present |-> TRUE, raised |-> FALSE, tool_name |-> name, success |-> TRUE,
            error |-> None]
      [] outcome = "failure" ->
           [present |-> TRUE, raised |-> FALSE, tool_name |-> name, success |-> FALSE,
            error |-> "Mock error"]
      [] outcome = "exception" -> OnToolException(name)

\* the finally block: the working directory after it
RestoredCwd(orig, current, restore_ok) ==
    IF orig # None
    THEN IF restore_ok THEN orig ELSE current
    ELSE current

\* the record of the calls in flight together after a step of execute_tool: kept
\* while a call is in flight
OverlapAfterReturn(group, pcs, logged) ==
    IF \A u \in Tasks : pcs[u] # "executing"
    THEN NoOverlap
    ELSE [group EXCEPT !.restore_failed = @ \/ logged]

\* execute_tool of task t returns res by path, leaving the process in directory dir
ReturnFromExecuteTool(t, res, path, dir, logged) ==
    /\ tool_pc' = [tool_pc EXCEPT ![t] = "returned"]
    /\ tool_result' = [tool_result EXCEPT ![t] = res]
    /\ exit_path' = [exit_path EXCEPT ![t] = path]
    /\ cwd' = dir
    /\ cwd_after' = [cwd_after EXCEPT ![t] = dir]
    /\ restore_logged' = [restore_logged EXCEPT ![t] = logged]

\* register_tool
RegisterTool(name) ==
    /\ name \notin tools
    /\ tools' = tools \cup {name}
    /\ UNCHANGED <<cwd, tool_pc, tool_request, original_dir, cwd_before, cwd_after,
                   exit_path, restore_logged, tool_result, overlapping>>
    /\ UNCHANGED outside_tools

\* task t calls execute_tool(request, working_directory).  chdir_ok: os.chdir to the
\* working directory succeeds; suspends: the tool awaits; outcome and restore_ok: how
\* a tool that does not await ends and whether the restoring os.chdir succeeds.
CallExecuteTool(t, name, dir, chdir_ok, suspends, outcome, restore_ok) ==
    /\ tool_pc[t] \in {"idle", "returned"}
    /\ tool_request' = [tool_request EXCEPT ![t] = [name |-> name, working_directory |-> dir]]
    /\ cwd_before' = [cwd_before EXCEPT ![t] = cwd]
    /\ IF name \notin tools
       THEN /\ original_dir' = [original_dir EXCEPT ![t] = None]
            /\ ReturnFromExecuteTool(t, NotRegistered(name), "unregistered", cwd, FALSE)
       ELSE IF Truthy(dir) /\ ~chdir_ok
       THEN /\ original_dir' = [original_dir EXCEPT ![t] = cwd]
            /\ ReturnFromExecuteTool(t, FailedSwitch(name), "failed_switch", cwd, FALSE)
       ELSE LET orig == IF Truthy(dir) THEN cwd ELSE None
                inside == IF Truthy(dir) THEN dir ELSE cwd
            IN  /\ original_dir' = [original_dir EXCEPT ![t] = orig]
                /\ IF suspends /\ MaySuspend(name)
                   THEN /\ tool_pc' = [tool_pc EXCEPT ![t] = "executing"]
                        /\ cwd' = inside
                        /\ cwd_after' = [cwd_after EXCEPT ![t] = StartDir]
                        /\ exit_path' = [exit_path EXCEPT ![t] = None]
                        /\ restore_logged' = [restore_logged EXCEPT ![t] = FALSE]
                        /\ tool_result' = [tool_result EXCEPT ![t] = NoToolResult]
                   ELSE ReturnFromExecuteTool(t, ToolResultOf(name, outcome), outcome,
                                              RestoredCwd(orig, inside, restore_ok),
                                              orig # None /\ ~restore_ok)
    /\ overlapping' =
           LET joined == IF \E u \in Tasks : tool_pc[u] = "executing"
                         THEN [overlapping EXCEPT !.overlapped = TRUE,
                                                  !.all_with_dir = @ /\ Truthy(dir)]
                         ELSE [first_cwd |-> cwd, overlapped |-> FALSE,
                               all_with_dir |-> Truthy(dir), restore_failed |-> FALSE]
           IN  OverlapAfterReturn(joined, tool_pc', restore_logged'[t])
    /\ UNCHANGED tools
    /\ UNCHANGED outside_tools

\* the tool awaited by task t ends, and execute_tool returns through its finally block
ToolCompletes(t, outcome, restore_ok) ==
    /\ tool_pc[t] = "executing"
    /\ ReturnFromExecuteTool(t, ToolResultOf(tool_request[t].name, outcome), outcome,
                             RestoredCwd(original_dir[t], cwd, restore_ok),
                             original_dir[t] # None /\ ~restore_ok)
    /\ overlapping' = OverlapAfterReturn(overlapping, tool_pc', restore_logged'[t])
    /\ UNCHANGED <<tools, tool_request, original_dir, cwd_before>>
    /\ UNCHANGED outside_tools

InitTools == ToolsInit /\ EngineIdle /\ AdapterIdle /\ FactoryIdle /\ FormatIdle /\ GraphIdle

NextTools ==
    \/ \E name \in ToolNames : RegisterTool(name)
    \/ \E t \in Tasks, name \in ToolNames, dir \in WorkingDirectories :
         \E chdir_ok \in ChdirOutcomes(dir), suspends \in {FALSE, MaySuspend(name)} :
           \E outcome \in (IF suspends \/ ~chdir_ok THEN {"success"} ELSE ToolOutcomes),
              restore_ok \in (IF suspends \/ ~chdir_ok THEN {TRUE} ELSE ChdirOutcomes(dir)) :
                CallExecuteTool(t, name, dir, chdir_ok, suspends, outcome, restore_ok)
    \/ \E t \in Tasks, outcome \in ToolOutcomes, restore_ok \in BOOLEAN :
            ToolCompletes(t, outcome, restore_ok)

SpecTools == InitTools /\ [][NextTools]_vars

(***************************************************************************)
(* Claims about the ToolExecutor                                           *)
(***************************************************************************)
\* C19: after execute_tool returns, by whichever exit path, the working directory of
\* the process is what it was immediately before the call.  Stated for the calls
\* returned while no task has logged a failed restoring os.chdir: a failed one leaves
\* the process in the working directory of the call, which breaks the claim as well.
C19_CwdRestoredOnEveryExitPath ==
    (\A u \in Tasks : ~restore_logged[u]) =>
        \A t \in Tasks :
            tool_pc[t] = "returned" => cwd_after[t] = cwd_before[t]

MaxDecisions == 3

\* largest token_budget passed
MaxBudget == 100

\* a stored stance: a vote with confidence and rationale
VotingStance ==
    [participant_len |-> 4, vote_option_len |-> 8, has_confidence |-> TRUE,
     confidence_pct_len |-> 2, rationale_len |-> 10]

\* the decisions passed: one without winning option and stances, one with both and
\* a long consensus, one whose stances the storage fails to read
FormatDecisions ==
    { [id |-> "small", question_len |-> 4, timestamp_len |-> 26, status_len |-> 9,
       consensus_len |-> 8, winning_option_len |-> 0, participants_len |-> 3,
       stances |-> <<>>, stances_raise |-> FALSE],
      [id |-> "large", question_len |-> 10, timestamp_len |-> 26, status_len |-> 9,
       consensus_len |-> 60, winning_option_len |-> 8, participants_len |-> 10,
       stances |-> <<VotingStance>>, stances_raise |-> FALSE],
      [id |-> "broken", question_len |-> 4, timestamp_len |-> 19, status_len |-> 9,
       consensus_len |-> 60, winning_option_len |-> 0, participants_len |-> 3,
       stances |-> <<>>, stances_raise |-> TRUE] }

\* similarity scores in hundredths: one for each tier of the default boundaries and
\* one under the noise floor
Scores == {85, 65, 45, 30}

\* tier boundaries a configuration may hold: 0 < moderate < strong <= 1
TierBoundaries == {DefaultTierBoundaries, [strong |-> 90, moderate |-> 50]}

NOISE_FLOOR == 40

\* scored_decisions arguments: sorted by score descending
ScoredDecisionLists ==
    UNION { { l \in [1..n -> [decision : FormatDecisions, score : Scores]] :
                \A i \in 1..(n - 1) : l[i].score >= l[i + 1].score } : n \in 0..MaxDecisions }

RECURSIVE SumLens(_)
SumLens(lens) == IF lens = <<>> THEN 0 ELSE Head(lens) + SumLens(Tail(lens))

\* len("\n".join(lines)) from the lengths of the lines
JoinLen(lens) == IF lens = <<>> THEN 0 ELSE SumLens(lens) + (Len(lens) - 1)

\* one "- **participant**: Voted for 'option' (confidence: NN%) - rationale" line
StanceLineLen(stance) ==
    8 + stance.participant_len
      + (IF stance.vote_option_len > 0
         THEN 12 + stance.vote_option_len
              + (IF stance.has_confidence THEN 16 + stance.confidence_pct_len ELSE 0)
         ELSE 0)
      + (IF stance.rationale_len > 0 THEN 3 + stance.rationale_len ELSE 0)

\* the lines _format_strong_tier adds for the stances
StanceLines(decision) ==
    IF decision.stances_raise
    THEN <<43>>
    ELSE IF decision.stances = <<>>
    THEN <<>>
    ELSE <<27>> \o [i \in 1..Len(decision.stances) |-> StanceLineLen(decision.stances[i])]

\* len(_format_strong_tier(decision, score))
FormatStrongTier(decision) ==
    JoinLen(<<37 + decision.question_len,
              10 + decision.timestamp_len,
              24 + decision.status_len,
              15 + decision.consensus_len>>
            \o (IF decision.winning_option_len > 0
                THEN <<20 + decision.winning_option_len>> ELSE <<>>)
            \o <<18 + decision.participants_len>>
            \o StanceLines(decision)
            \o <<0>>)

\* len(_format_moderate_tier(decision, score))
FormatModerateTier(decision) ==
    JoinLen(<<39 + decision.question_len,
              15 + decision.consensus_len>>
            \o (IF decision.winning_option_len > 0
                THEN <<12 + decision.winning_option_len>> ELSE <<>>)
            \o <<0>>)

\* len(_format_brief_tier(decision, score)): winning_option or consensus[:50]
FormatBriefTier(decision) ==
    LET result_len == IF decision.winning_option_len > 0
                      THEN decision.winning_option_len
                      ELSE IF decision.consensus_len < 50 THEN decision.consensus_len ELSE 50
    IN  26 + decision.question_len + 3 + result_len + 1

\* _estimate_tokens
EstimateTokens(formatted_len) == formatted_len \div 4

\* len(header) of format_context_tiered
HeaderLen == 53

\* the tier of a score at or above the noise floor
TierOf(score, boundaries) ==
    IF score >= boundaries.strong THEN "strong"
    ELSE IF score >= boundaries.moderate THEN "moderate"
    ELSE "brief"

\* the length of the entry formatted for its tier
FormattedLen(decision, tier) ==
    CASE tier = "strong" -> FormatStrongTier(decision)
      [] tier = "moderate" -> FormatModerateTier(decision)
      [] tier = "brief" -> FormatBriefTier(decision)

\* the entry is added whatever the budget
ExceedsBudget_Never(used, decision_tokens, budget) == FALSE

\* an entry that fills the budget to the last token is refused
ExceedsBudget_AtBudget(used, decision_tokens, budget) == used + decision_tokens >= budget

\* the budget test of the loop
ExceedsBudget(used, decision_tokens, budget) == used + decision_tokens > budget

TiersEmitted(dist) == dist.strong + dist.moderate + dist.brief

\* format_context_tiered up to the for loop: the early return for an empty list,
\* else the header
CallFormatContextTiered ==
    /\ format_pc = "idle"
    /\ IF scored_decisions = <<>>
       THEN /\ format_result' = [present |-> TRUE, formatted_len |-> 0, tokens_used |-> 0,
                                 tier_distribution |-> tier_distribution]
            /\ format_pc' = "done"
            /\ UNCHANGED <<formatted_parts, tokens_used>>
       ELSE /\ formatted_parts' = <<HeaderLen>>
            /\ tokens_used' = tokens_used + EstimateTokens(HeaderLen)
            /\ format_pc' = "loop"
            /\ UNCHANGED format_result
    /\ UNCHANGED <<scored_decisions, tier_boundaries, token_budget, next_decision,
                   tier_distribution>>
    /\ UNCHANGED outside_format

\* one iteration of the for loop, or its end
ProcessScoredDecision ==
    /\ format_pc = "loop"
    /\ IF next_decision > Len(scored_decisions)
       THEN /\ format_pc' = "after_loop"
            /\ UNCHANGED <<next_decision, tokens_used, tier_distribution, formatted_parts>>
       ELSE LET decision == scored_decisions[next_decision].decision
                score == scored_decisions[next_decision].score
                tier == TierOf(score, tier_boundaries)
                decision_tokens == EstimateTokens(FormattedLen(decision, tier))
            IN  IF score < NOISE_FLOOR
                THEN /\ next_decision' = next_decision + 1
                     /\ UNCHANGED <<format_pc, tokens_used, tier_distribution,
                                    formatted_parts>>
                ELSE IF ExceedsBudget(tokens_used, decision_tokens, token_budget)
                THEN /\ format_pc' = "after_loop"
                     /\ UNCHANGED <<next_decision, tokens_used, tier_distribution,
                                    formatted_parts>>
                ELSE /\ formatted_parts' = Append(formatted_parts, FormattedLen(decision, tier))
                     /\ tokens_used' = tokens_used + decision_tokens
                     /\ tier_distribution' =
                            [tier_distribution EXCEPT ![tier] = tier_distribution[tier] + 1]
                     /\ next_decision' = next_decision + 1
                     /\ UNCHANGED format_pc
    /\ UNCHANGED <<scored_decisions, tier_boundaries, token_budget, format_result>>
    /\ UNCHANGED outside_format

\* after the loop: the parts are joined and the dict returned, the empty one when no
\* entry was emitted
ReturnFormatContextTiered ==
    /\ format_pc = "after_loop"
    /\ format_result' =
          IF TiersEmitted(tier_distribution) = 0
          THEN [present |-> TRUE, formatted_len |-> 0, tokens_used |-> 0,
                tier_distribution |-> tier_distribution]
          ELSE [present |-> TRUE, formatted_len |-> JoinLen(formatted_parts),
                tokens_used |-> tokens_used, tier_distribution |-> tier_distribution]
    /\ format_pc' = "done"
    /\ UNCHANGED <<scored_decisions, tier_boundaries, token_budget, next_decision,
                   tokens_used, tier_distribution, formatted_parts>>
    /\ UNCHANGED outside_format

InitFormat ==
    /\ FormatLocalsInit
    /\ scored_decisions \in ScoredDecisionLists
    /\ tier_boundaries \in TierBoundaries
    /\ token_budget \in 0..MaxBudget
    /\ EngineIdle /\ AdapterIdle /\ FactoryIdle /\ ToolsInit /\ GraphIdle

NextFormat ==
    \/ CallFormatContextTiered
    \/ ProcessScoredDecision
    \/ ReturnFormatContextTiered

SpecFormat == InitFormat /\ [][NextFormat]_vars

\* the entries of scored_decisions at or above the noise floor
AboveNoiseFloor == {i \in 1..Len(scored_decisions) : scored_decisions[i].score >= NOISE_FLOOR}

\* the tokens the formatter counts for entry i in its own tier
EntryTokens(i) ==
    EstimateTokens(FormattedLen(scored_decisions[i].decision,
                                TierOf(scored_decisions[i].score, tier_boundaries)))

\* the tokens the formatter counts for the header and the first k entries
RECURSIVE TokensNeeded(_)
TokensNeeded(k) == IF k = 0 THEN EstimateTokens(HeaderLen) ELSE TokensNeeded(k - 1) + EntryTokens(k)

\* the first k entries are strong-tier
FirstAreStrong(k) ==
    \A i \in 1..k : /\ scored_decisions[i].score >= NOISE_FLOOR
                    /\ TierOf(scored_decisions[i].score, tier_boundaries) = "strong"

\* the budget holds the header and the first k entries and not the entry after them
BudgetHoldsExactly(k) ==
    /\ k < Len(scored_decisions)
    /\ (k + 1) \in AboveNoiseFloor
    /\ TokensNeeded(k) <= token_budget
    /\ token_budget < TokensNeeded(k + 1)

\* C21: the tokens_used that format_context_tiered reports, header included, never
\* exceeds the token budget it was given, whatever the list of scored decisions and
\* the tier boundaries.
C21_TokensUsedWithinBudget ==
    format_result.present => format_result.tokens_used <= token_budget

\* the formatter returned a context that fills part of the budget and left out an
\* entry above the noise floor because it did not fit
C21_Witness ==
    /\ format_result.present
    /\ format_result.tokens_used > 0
    /\ TiersEmitted(format_result.tier_distribution) < Cardinality(AboveNoiseFloor)

\* C22: when the budget holds k strong-tier entries and not the entry that follows
\* them, the formatter emits exactly those k strong entries and no moderate and no
\* brief entry: the loop stops at the first entry that does not fit.
C22_BudgetForStrongOnly ==
    format_result.present =>
        \A k \in 1..Len(scored_decisions) :
            (FirstAreStrong(k) /\ BudgetHoldsExactly(k))
                => format_result.tier_distribution = [strong |-> k, moderate |-> 0, brief |-> 0]

\* the budget was exactly the header and two strong entries, a moderate entry
\* followed, and the formatter returned
C22_Witness ==
    /\ format_result.present
    /\ Len(scored_decisions) = 3
    /\ FirstAreStrong(2)
    /\ BudgetHoldsExactly(2)
    /\ token_budget = TokensNeeded(2)
    /\ TierOf(scored_decisions[3].score, tier_boundaries) = "moderate"

(***************************************************************************)
(* DecisionGraphStorage (src/decision_graph/storage.py) and                *)
(* DecisionGraphIntegration.store_deliberation (src/decision_graph/        *)
(* integration.py).  Decision ids are numbers; a uuid4 is a number not yet *)
(* in the table.                                                           *)
(***************************************************************************)
\* most rows of decision_nodes
MaxNodes == 2

\* most rows of participant_stances
MaxStances == 2

\* last value of the clock
MaxTime == 2

NodeIds == 1..MaxNodes

Questions == {"q1", "q2"}

\* similarity scores in hundredths
SimilarityScores == {60}

\* json.dumps and json.loads
JsonDumps(value) == [null |-> FALSE, json |-> value]
JsonLoads(text) == text.json

\* a NULL column
Null == [null |-> TRUE, json |-> {}]

\* datetime.isoformat and datetime.fromisoformat
IsoFormat(timestamp) == [iso |-> timestamp]
FromIsoFormat(text) == text.iso

\* the DecisionNode objects callers pass to save_decision_node; metadata is the set
\* of keys of the dict
DecisionNodes ==
    [id : NodeIds, question : {"q2"}, timestamp : {0},
     consensus : {""}, winning_option : {None}, convergence_status : {"unknown"},
     participants : {<<"p1">>}, transcript_path : {""}, metadata : {{}}]
    \cup
    [id : NodeIds, question : {"q1"}, timestamp : {0},
     consensus : {"use option A"}, winning_option : {"Option A"},
     convergence_status : {"converged"}, participants : {<<"p1", "p2">>},
     transcript_path : {"transcripts/t1.md"}, metadata : {{"source"}}]

\* the row save_decision_node inserts
NodeRow(node) ==
    [id |-> node.id,
     question |-> node.question,
     timestamp |-> IsoFormat(node.timestamp),
     consensus |-> node.consensus,
     winning_option |-> node.winning_option,
     convergence_status |-> node.convergence_status,
     participants |-> JsonDumps(node.participants),
     transcript_path |-> node.transcript_path,
     metadata |-> IF node.metadata /= {} THEN JsonDumps(node.metadata) ELSE Null]

\* a conversion that loses the winning option
RowToDecisionNode_NoWinningOption(row) ==
    [id |-> row.id,
     question |-> row.question,
     timestamp |-> FromIsoFormat(row.timestamp),
     consensus |-> row.consensus,
     winning_option |-> None,
     convergence_status |-> row.convergence_status,
     participants |-> JsonLoads(row.participants),
     transcript_path |-> row.transcript_path,
     metadata |-> IF ~row.metadata.null THEN JsonLoads(row.metadata) ELSE {}]

\* _row_to_decision_node
RowToDecisionNode(row) ==
    [id |-> row.id,
     question |-> row.question,
     timestamp |-> FromIsoFormat(row.timestamp),
     consensus |-> row.consensus,
     winning_option |-> row.winning_option,
     convergence_status |-> row.convergence_status,
     participants |-> JsonLoads(row.participants),
     transcript_path |-> row.transcript_path,
     metadata |-> IF ~row.metadata.null THEN JsonLoads(row.metadata) ELSE {}]

\* the key is free whatever the table holds
PrimaryKeyTaken_Never(nodes, id) == FALSE

\* PRIMARY KEY of decision_nodes: a plain INSERT of a present id fails
PrimaryKeyTaken(nodes, id) == id \in DOMAIN nodes

\* no foreign key is checked
ReferencesNode_Unchecked(nodes, id) == TRUE

\* FOREIGN KEY ... REFERENCES decision_nodes(id) with PRAGMA foreign_keys = ON
ReferencesNode(nodes, id) == id \in DOMAIN nodes

\* one transaction around the whole of store_deliberation: a later failure undoes
\* the rows written before it
Committed_RolledBackByLaterFailure(before, after) == before

\* conn.commit() at the end of transaction(): the rows a call wrote stay when a
\* later call fails
Committed(before, after) == after

\* the rows of the failed transaction stay
RolledBack_RowKept(before, written) == written

\* conn.rollback() in the "except Exception" of transaction(): the table is as it
\* was before the write
RolledBack(before, written) == before

\* transaction() around the INSERT of save_decision_node: the tables after it and
\* the exception it raised; db_fails is an error of the database after the row was
\* written, such as a failing commit
InsertDecisionNode(nodes, node, db_fails) ==
    LET written == [id \in DOMAIN nodes \cup {node.id} |->
                       IF id = node.id THEN NodeRow(node) ELSE nodes[id]]
    IN  IF PrimaryKeyTaken(nodes, node.id)
        THEN [raised |-> "IntegrityError", nodes |-> nodes]
        ELSE IF db_fails
        THEN [raised |-> "OperationalError", nodes |-> RolledBack(nodes, written)]
        ELSE [raised |-> None, nodes |-> written]

\* transaction() around the INSERT of save_participant_stance
InsertParticipantStance(nodes, stances, stance, db_fails) ==
    IF ~ReferencesNode(nodes, stance.decision_id)
    THEN [raised |-> "IntegrityError", stances |-> stances]
    ELSE IF db_fails
    THEN [raised |-> "OperationalError",
          stances |-> RolledBack(stances, Append(stances, stance))]
    ELSE [raised |-> None, stances |-> Append(stances, stance)]

\* transaction() around the INSERT OR REPLACE of save_similarity
InsertOrReplaceSimilarity(nodes, similarities, similarity, db_fails) ==
    LET key == <<similarity.source_id, similarity.target_id>>
        written == [k \in DOMAIN similarities \cup {key} |->
                       IF k = key THEN similarity.similarity_score ELSE similarities[k]]
    IN  IF ~(/\ ReferencesNode(nodes, similarity.source_id)
             /\ ReferencesNode(nodes, similarity.target_id))
        THEN [raised |-> "IntegrityError", similarities |-> similarities]
        ELSE IF db_fails
        THEN [raised |-> "OperationalError",
              similarities |-> RolledBack(similarities, written)]
        ELSE [raised |-> None, similarities |-> written]

\* get_decision_node: the node or None
GetDecisionNode(nodes, id) ==
    IF id \in DOMAIN nodes THEN RowToDecisionNode(nodes[id]) ELSE NullNode

\* save_decision_node(node)
SaveDecisionNode(node, db_fails) ==
    LET done == InsertDecisionNode(decision_nodes, node, db_fails)
    IN  /\ decision_nodes' = done.nodes
        /\ storage_result' = [present |-> TRUE, op |-> "save_decision_node",
                              raised |-> done.raised, node |-> node,
                              refers_to |-> {node.id}]
        /\ UNCHANGED <<participant_stances, decision_similarities, store_result,
                       query_cache, clock, retrieval_call, retrieval_result>>
        /\ UNCHANGED outside_graph

\* get_decision_node(id)
CallGetDecisionNode(id) ==
    /\ storage_result' = [present |-> TRUE, op |-> "get_decision_node", raised |-> None,
                          node |-> GetDecisionNode(decision_nodes, id), refers_to |-> {id}]
    /\ UNCHANGED <<decision_nodes, participant_stances, decision_similarities, store_result,
                   query_cache, clock, retrieval_call, retrieval_result>>
    /\ UNCHANGED outside_graph

\* save_participant_stance(stance)
SaveParticipantStance(stance, db_fails) ==
    /\ Len(participant_stances) < MaxStances
    /\ LET done == InsertParticipantStance(decision_nodes, participant_stances, stance, db_fails)
       IN  /\ participant_stances' = done.stances
           /\ storage_result' = [present |-> TRUE, op |-> "save_participant_stance",
                                 raised |-> done.raised, node |-> NullNode,
                                 refers_to |-> {stance.decision_id}]
    /\ UNCHANGED <<decision_nodes, decision_similarities, store_result,
                   query_cache, clock, retrieval_call, retrieval_result>>
    /\ UNCHANGED outside_graph

\* save_similarity(similarity)
SaveSimilarity(similarity, db_fails) ==
    /\ LET done == InsertOrReplaceSimilarity(decision_nodes, decision_similarities,
                                             similarity, db_fails)
       IN  /\ decision_similarities' = done.similarities
           /\ storage_result' = [present |-> TRUE, op |-> "save_similarity",
                                 raised |-> done.raised, node |-> NullNode,
                                 refers_to |-> {similarity.source_id, similarity.target_id}]
    /\ UNCHANGED <<decision_nodes, participant_stances, store_result,
                   query_cache, clock, retrieval_call, retrieval_result>>
    /\ UNCHANGED outside_graph

\* the ParticipantStance objects callers pass to save_participant_stance
ParticipantStances ==
    [decision_id : NodeIds, participant : {"p1"}]

\* the DecisionSimilarity objects callers pass to save_similarity
DecisionSimilarities ==
    [source_id : NodeIds, target_id : NodeIds, similarity_score : SimilarityScores]

\* the question and what store_deliberation reads of the DeliberationResult: one
\* with summary, vote and final round, one with none of them
DeliberationResults ==
    { [question |-> "q1", consensus |-> "use option A", winning_option |-> "Option A",
       convergence_status |-> "converged", participants |-> <<"p1", "p2">>,
       transcript_path |-> "transcripts/t1.md", rounds_completed |-> 1],
      [question |-> "q2", consensus |-> None, winning_option |-> None,
       convergence_status |-> None, participants |-> <<"p1">>,
       transcript_path |-> None, rounds_completed |-> 0] }

\* the step of store_deliberation that fails, and at which participant or decision
StoreFaults ==
    { [step |-> None, at |-> 0],
      [step |-> "save_decision_node", at |-> 0],
      [step |-> "save_participant_stance", at |-> 1],
      [step |-> "save_participant_stance", at |-> 2],
      [step |-> "get_all_decisions", at |-> 0],
      [step |-> "compute_similarity", at |-> 1],
      [step |-> "save_similarity", at |-> 1] }

\* the threshold of _compute_similarities, in hundredths
EdgeThreshold == 50

\* QuestionSimilarityDetector.compute_similarity, in hundredths: a question is
\* most similar to itself
ComputeSimilarity(question, other) == IF question = other THEN 100 ELSE 30

\* str(uuid4()): an id no row has
FreshIds == NodeIds \ DOMAIN decision_nodes

\* the node store_deliberation builds
NewDecisionNode(id, question, deliberation) ==
    [id |-> id,
     question |-> question,
     timestamp |-> clock,
     consensus |-> IF deliberation.consensus /= None THEN deliberation.consensus ELSE "",
     winning_option |-> deliberation.winning_option,
     convergence_status |-> IF deliberation.convergence_status /= None
                            THEN deliberation.convergence_status ELSE "unknown",
     participants |-> deliberation.participants,
     transcript_path |-> IF deliberation.transcript_path /= None THEN deliberation.transcript_path ELSE "",
     metadata |-> {}]

\* the loop over deliberation.participants that saves one stance each, from participant i
\* on: the first failing save ends it
RECURSIVE SaveStances(_, _, _, _, _, _)
SaveStances(nodes, stances, decision_id, deliberation, i, fault) ==
    IF i > Len(deliberation.participants)
    THEN [raised |-> None, stances |-> stances]
    ELSE LET stance == [decision_id |-> decision_id,
                        participant |-> deliberation.participants[i]]
             done == InsertParticipantStance(nodes, stances, stance,
                        fault.step = "save_participant_stance" /\ fault.at = i)
         IN  IF done.raised /= None
             THEN done
             ELSE SaveStances(nodes, done.stances, decision_id, deliberation, i + 1, fault)

\* decision a comes before decision b in get_all_decisions: newest first
ListedBefore(nodes, a, b) ==
    \/ FromIsoFormat(nodes[a].timestamp) > FromIsoFormat(nodes[b].timestamp)
    \/ FromIsoFormat(nodes[a].timestamp) = FromIsoFormat(nodes[b].timestamp) /\ a > b

\* the limit _compute_similarities passes to get_all_decisions
SimilarityLimit == 100

\* get_all_decisions(limit): the ids of the rows that "ORDER BY timestamp DESC
\* LIMIT ?" returns
GetAllDecisions(nodes, limit) ==
    {id \in DOMAIN nodes :
        Cardinality({other \in DOMAIN nodes : ListedBefore(nodes, other, id)}) < limit}

\* "if existing.id == new_node.id: continue"
SkipsSelfComparison(existing_id, new_id) == existing_id = new_id

\* one iteration of the loop of _compute_similarities, for the decision existing_id:
\* a failure for one decision is logged and the loop continues
CompareWith(nodes, similarities, new_node, existing_id, fault) ==
    LET score == ComputeSimilarity(new_node.question, nodes[existing_id].question)
        fails == fault.at = existing_id
    IN  IF SkipsSelfComparison(existing_id, new_node.id)
        THEN similarities
        ELSE IF fault.step = "compute_similarity" /\ fails
        THEN similarities
        ELSE IF score >= EdgeThreshold
        THEN InsertOrReplaceSimilarity(nodes, similarities,
                 [source_id |-> new_node.id, target_id |-> existing_id,
                  similarity_score |-> score],
                 fault.step = "save_similarity" /\ fails).similarities
        ELSE similarities

\* the loop of _compute_similarities over the decisions listed: every iteration
\* writes at most the edge from the new decision to its own, so the table after the
\* loop holds, beside its rows, the edge of each iteration that wrote one
ComputeSimilarities(nodes, similarities, new_node, todo, fault) ==
    LET written == {id \in todo :
                       CompareWith(nodes, similarities, new_node, id, fault) /= similarities}
    IN  [key \in DOMAIN similarities \cup {<<new_node.id, id>> : id \in written} |->
            IF key[1] = new_node.id /\ key[2] \in written
            THEN CompareWith(nodes, similarities, new_node, key[2], fault)[key]
            ELSE similarities[key]]

\* a step of _compute_similarities fails: the read of the decisions, or the scoring
\* or the edge write for a decision that is compared
SimilarityStepFails(nodes, new_node, fault) ==
    \/ fault.step = "get_all_decisions"
    \/ /\ fault.step \in {"compute_similarity", "save_similarity"}
       /\ fault.at \in DOMAIN nodes \ {new_node.id}
       /\ fault.step = "save_similarity"
            => ComputeSimilarity(new_node.question, nodes[fault.at].question) >= EdgeThreshold

\* the exception is logged and store_deliberation returns the id
StoreDeliberationOnError_Returns(error, decision_id, step) ==
    [present |-> TRUE, raised |-> None, returned |-> decision_id,
     decision_id |-> decision_id, failed_step |-> step]

\* the outer "except Exception" of store_deliberation: the error is logged and
\* raised again, so nothing is returned
StoreDeliberationOnError(error, decision_id, step) ==
    [present |-> TRUE, raised |-> error, returned |-> 0,
     decision_id |-> decision_id, failed_step |-> step]

\* store_deliberation(question, deliberation)
StoreDeliberation(question, deliberation, fault) ==
    /\ FreshIds /= {}
    /\ deliberation.rounds_completed > 0
         => Len(participant_stances) + Len(deliberation.participants) <= MaxStances
    /\ LET decision_id == CHOOSE id \in FreshIds : \A other \in FreshIds : id <= other
           node == NewDecisionNode(decision_id, question, deliberation)
           saved == InsertDecisionNode(decision_nodes, node, fault.step = "save_decision_node")
           stanced == IF deliberation.rounds_completed > 0
                      THEN SaveStances(saved.nodes, participant_stances, decision_id,
                                       deliberation, 1, fault)
                      ELSE [raised |-> None, stances |-> participant_stances]
       IN  IF saved.raised /= None
           THEN /\ store_result' = StoreDeliberationOnError(saved.raised, decision_id,
                                                            "save_decision_node")
                /\ UNCHANGED <<decision_nodes, participant_stances, decision_similarities>>
           ELSE IF stanced.raised /= None
           THEN /\ decision_nodes' = Committed(decision_nodes, saved.nodes)
                /\ participant_stances' = Committed(participant_stances, stanced.stances)
                /\ store_result' = StoreDeliberationOnError(stanced.raised, decision_id,
                                                            "save_participant_stance")
                /\ UNCHANGED decision_similarities
           ELSE /\ decision_nodes' = saved.nodes
                /\ participant_stances' = stanced.stances
                /\ decision_similarities' =
                       IF fault.step = "get_all_decisions"
                       THEN decision_similarities
                       ELSE ComputeSimilarities(saved.nodes, decision_similarities, node,
                                                GetAllDecisions(saved.nodes, SimilarityLimit),
                                                fault)
                /\ store_result' = [present |-> TRUE, raised |-> None,
                                    returned |-> decision_id, decision_id |-> decision_id,
                                    failed_step |-> IF SimilarityStepFails(saved.nodes, node, fault)
                                                    THEN fault.step ELSE None]
    /\ UNCHANGED <<storage_result, query_cache, clock, retrieval_call, retrieval_result>>
    /\ UNCHANGED outside_graph

InitStorage == GraphIdle /\ EngineIdle /\ AdapterIdle /\ FactoryIdle /\ ToolsInit /\ FormatIdle

NextStorage ==
    \/ \E node \in DecisionNodes, db_fails \in BOOLEAN : SaveDecisionNode(node, db_fails)
    \/ \E id \in NodeIds : CallGetDecisionNode(id)
    \/ \E stance \in ParticipantStances, db_fails \in BOOLEAN :
           SaveParticipantStance(stance, db_fails)
    \/ \E similarity \in DecisionSimilarities, db_fails \in BOOLEAN :
           SaveSimilarity(similarity, db_fails)
    \/ \E deliberation \in DeliberationResults, fault \in StoreFaults :
           StoreDeliberation(deliberation.question, deliberation, fault)

SpecStorage == InitStorage /\ [][NextStorage]_vars

(***************************************************************************)
(* save_decision_node called by deliberations that run in one event loop   *)
(* and share the storage object: the INSERT and the end of the transaction *)
(* as two steps                                                            *)
(***************************************************************************)
\* mutant: the block awaits between the INSERT and the commit
TransactionYields_Awaits == TRUE

\* transaction() is a plain context manager and save_decision_node a plain method:
\* no await stands between the INSERT and the commit or rollback, so the event loop
\* runs no other deliberation in between
TransactionYields == FALSE

\* the rows of pending that deliberation t wrote
WrittenBy(t) == {row \in pending : row.writer = t}

\* conn.commit(): the table with every row written on the connection since its last
\* commit or rollback
ConnCommit(nodes, rows) ==
    [id \in DOMAIN nodes \cup {row.node.id : row \in rows} |->
        IF \E row \in rows : row.node.id = id
        THEN NodeRow((CHOOSE row \in rows : row.node.id = id).node)
        ELSE nodes[id]]

\* deliberation t calls save_decision_node(node): transaction() is entered and the
\* INSERT executed.  A taken primary key raises at once, and transaction() rolls the
\* connection back
BeginSaveDecisionNode(t, node) ==
    /\ writer_pc[t] = "idle"
    /\ running = 0
    /\ IF PrimaryKeyTaken(decision_nodes, node.id) \/ \E row \in pending : row.node.id = node.id
       THEN /\ pending' = {}
            /\ write_result' = [write_result EXCEPT ![t] =
                                   [present |-> TRUE, raised |-> "IntegrityError",
                                    id |-> node.id]]
            /\ UNCHANGED <<writer_pc, running>>
       ELSE /\ pending' = pending \cup {[writer |-> t, node |-> node]}
            /\ writer_pc' = [writer_pc EXCEPT ![t] = "in_transaction"]
            /\ running' = IF TransactionYields THEN 0 ELSE t
            /\ write_result' = [write_result EXCEPT ![t] =
                                   [present |-> FALSE, raised |-> None, id |-> node.id]]
    /\ UNCHANGED graph_vars
    /\ UNCHANGED outside_store

\* the block of deliberation t is left: conn.commit(), or conn.rollback() and the
\* exception raised again when the commit fails
EndSaveDecisionNode(t, commit_ok) ==
    /\ writer_pc[t] = "in_transaction"
    /\ running \in {0, t}
    /\ decision_nodes' = IF commit_ok
                         THEN ConnCommit(decision_nodes, pending)
                         ELSE RolledBack(decision_nodes, ConnCommit(decision_nodes, pending))
    /\ pending' = {}
    /\ writer_pc' = [writer_pc EXCEPT ![t] = "idle"]
    /\ running' = 0
    /\ write_result' = [write_result EXCEPT ![t] =
                           [present |-> TRUE,
                            raised |-> IF commit_ok THEN None ELSE "OperationalError",
                            id |-> write_result[t].id]]
    /\ UNCHANGED <<participant_stances, decision_similarities, storage_result, store_result,
                   query_cache, clock, retrieval_call, retrieval_result>>
    /\ UNCHANGED outside_store

\* a deliberation that is scheduled calls get_decision_node(id)
ReadDecisionNode(id) ==
    /\ running = 0
    /\ CallGetDecisionNode(id)

InitConnection ==
    GraphIdle /\ EngineIdle /\ AdapterIdle /\ FactoryIdle /\ ToolsInit /\ FormatIdle

NextConnection ==
    \/ \E t \in Tasks, node \in DecisionNodes : BeginSaveDecisionNode(t, node)
    \/ \E t \in Tasks, commit_ok \in BOOLEAN : EndSaveDecisionNode(t, commit_ok)
    \/ \E id \in NodeIds : ReadDecisionNode(id)

SpecConnection == InitConnection /\ [][NextConnection]_vars

(***************************************************************************)
(* store_deliberation on a store that holds about as many decisions as     *)
(* _compute_similarities reads                                             *)
(***************************************************************************)
\* most decisions the store holds before store_deliberation is called
MaxStored == 101

\* a store of n decisions saved one after another before the clock's start, the
\* oldest first; the one at position k asked "q1", the others "q2"
StoredDecisions(n, k) ==
    [id \in (MaxNodes + 1) .. (MaxNodes + n) |->
        NodeRow([id |-> id,
                 question |-> IF id = MaxNodes + k THEN "q1" ELSE "q2",
                 timestamp |-> (id - MaxNodes) - (n + 1),
                 consensus |-> "", winning_option |-> None,
                 convergence_status |-> "unknown", participants |-> <<"p1">>,
                 transcript_path |-> "", metadata |-> {}])]

InitSimilarities ==
    /\ \E n \in (SimilarityLimit - 1) .. MaxStored, k \in {1, 2, SimilarityLimit - 1} :
          decision_nodes = StoredDecisions(n, k)
    /\ participant_stances = <<>>
    /\ decision_similarities = <<>>
    /\ storage_result = NoStorageResult
    /\ store_result = NoStoreResult
    /\ clock = 0
    /\ retrieval_call = NoRetrievalCall
    /\ retrieval_result = NoRetrievalResult
    /\ query_cache = [enabled |-> TRUE, entries |-> <<>>]
    /\ ConnectionIdle
    /\ EngineIdle /\ AdapterIdle /\ FactoryIdle /\ ToolsInit /\ FormatIdle

NextSimilarities ==
    \E deliberation \in DeliberationResults, fault \in StoreFaults :
        StoreDeliberation(deliberation.question, deliberation, fault)

SpecSimilarities == InitSimilarities /\ [][NextSimilarities]_vars

\* the last storage call was a save_decision_node that returned the id
NodeSaved ==
    /\ storage_result.present
    /\ storage_result.op = "save_decision_node"
    /\ storage_result.raised = None

\* C26: once save_decision_node has stored a node, get_decision_node of its id
\* returns a node with the same id, question, consensus, winning_option,
\* convergence_status, participants and transcript_path.
C26_StoredNodeReadBackEqual ==
    NodeSaved =>
        LET saved == storage_result.node
            got == GetDecisionNode(decision_nodes, saved.id)
        IN  /\ got.id = saved.id
            /\ got.question = saved.question
            /\ got.consensus = saved.consensus
            /\ got.winning_option = saved.winning_option
            /\ got.convergence_status = saved.convergence_status
            /\ got.participants = saved.participants
            /\ got.transcript_path = saved.transcript_path

\* a node with a winning option, two participants and metadata was saved, with
\* another node already in the table
C26_Witness ==
    /\ NodeSaved
    /\ storage_result.node.winning_option = "Option A"
    /\ Len(storage_result.node.participants) = 2
    /\ storage_result.node.metadata /= {}
    /\ Cardinality(DOMAIN decision_nodes) = 2

\* a step that called save_decision_node with an id the table already had
SavesTakenId ==
    /\ storage_result' /= storage_result
    /\ storage_result'.op = "save_decision_node"
    /\ storage_result'.node.id \in DOMAIN decision_nodes

\* C27: a stored DecisionNode is immutable: no operation changes or removes its row,
\* and save_decision_node of a node with a stored id fails and leaves it as it was.
C27_StoredNodeImmutable ==
    [][/\ \A id \in DOMAIN decision_nodes :
              /\ id \in DOMAIN decision_nodes'
              /\ decision_nodes'[id] = decision_nodes[id]
       /\ SavesTakenId => storage_result'.raised = "IntegrityError"]_vars

\* save_decision_node was refused for a node whose id is stored with other contents
C27_Witness ==
    /\ storage_result.op = "save_decision_node"
    /\ storage_result.raised = "IntegrityError"
    /\ storage_result.node.id \in DOMAIN decision_nodes
    /\ NodeRow(storage_result.node) /= decision_nodes[storage_result.node.id]

\* C28: the decision_id of every stored stance and both endpoints of every stored
\* similarity are ids of stored decision nodes, and a stance or similarity write
\* that names an id without a node is rejected.
C28_ReferencesExistingNodes ==
    /\ \A i \in 1..Len(participant_stances) :
           participant_stances[i].decision_id \in DOMAIN decision_nodes
    /\ \A edge \in DOMAIN decision_similarities :
           edge[1] \in DOMAIN decision_nodes /\ edge[2] \in DOMAIN decision_nodes
    /\ (/\ storage_result.op \in {"save_participant_stance", "save_similarity"}
        /\ ~(storage_result.refers_to \subseteq DOMAIN decision_nodes))
           => storage_result.raised = "IntegrityError"

\* with a stance and a similarity stored, a similarity between a stored and a
\* missing node was refused
C28_Witness ==
    /\ participant_stances /= <<>>
    /\ DOMAIN decision_similarities /= {}
    /\ storage_result.op = "save_similarity"
    /\ storage_result.raised = "IntegrityError"
    /\ storage_result.refers_to \cap DOMAIN decision_nodes /= {}

\* C29: no similarity edge from a decision to itself is in the store, whatever
\* store operations were applied.
C29_NoSelfEdges ==
    \A edge \in DOMAIN decision_similarities : edge[1] /= edge[2]

\* no store_deliberation writes an edge from a decision to itself
C29_StoreDeliberationWritesNoSelfEdge ==
    [][store_result' /= store_result =>
          \A edge \in DOMAIN decision_similarities' \ DOMAIN decision_similarities :
              edge[1] /= edge[2]]_vars

\* store_deliberation ended with a failure of a step after the node insert
FailedAfterNodeInsert ==
    /\ store_result.present
    /\ store_result.failed_step \in {"save_participant_stance", "get_all_decisions",
                                     "compute_similarity", "save_similarity"}

\* C30: when a step of store_deliberation after the node insert fails (a stance
\* write, the similarity computation, an edge write), the DecisionNode stays stored
\* and get_decision_node returns it.
C30_NodeSurvivesLaterFailure ==
    FailedAfterNodeInsert =>
        /\ store_result.decision_id \in DOMAIN decision_nodes
        /\ GetDecisionNode(decision_nodes, store_result.decision_id).id
               = store_result.decision_id

\* store_deliberation raised from the second stance write: the node and the first
\* stance are stored
C30_Witness ==
    /\ FailedAfterNodeInsert
    /\ store_result.raised = "OperationalError"
    /\ store_result.decision_id \in DOMAIN decision_nodes
    /\ \E i \in 1..Len(participant_stances) :
           participant_stances[i].decision_id = store_result.decision_id

(***************************************************************************)
(* DecisionRetriever.find_relevant_decisions, get_enriched_context and     *)
(* invalidate_cache (src/decision_graph/retrieval.py) and                  *)
(* DecisionGraphIntegration.get_context_for_deliberation.  The result of a *)
(* retrieval is the sequence of the ids of the decisions returned, or of   *)
(* the decisions formatted into the context; the empty context is <<>>.    *)
(***************************************************************************)
\* query_ttl=300 seconds, in ticks of the clock of 150 seconds
QueryTtl == 2

\* the queries made: the same question with two thresholds and two limits, another
\* question, and queries with an empty question, a threshold above 1 and a limit of 0
ValidQueries ==
    { [question |-> "q1", threshold |-> 70, max_results |-> 2],
      [question |-> "q1", threshold |-> 20, max_results |-> 2],
      [question |-> "q1", threshold |-> 70, max_results |-> 1],
      [question |-> "q2", threshold |-> 70, max_results |-> 2] }

InvalidQueries ==
    { [question |-> "", threshold |-> 70, max_results |-> 2],
      [question |-> "q1", threshold |-> 150, max_results |-> 2],
      [question |-> "q1", threshold |-> 70, max_results |-> 0] }

\* the step of a retrieval that raises
RetrievalFaults == {None, "get_all_decisions", "get_decision_node", "format_context"}

\* the entry is found under the question alone
CacheKey_QuestionOnly(question, threshold, max_results) == <<question>>

\* the arguments of get_cached_result and cache_result
CacheKey(question, threshold, max_results) == <<question, threshold, max_results>>

\* SimilarityCache.get_cached_result: the value stored under the key less than
\* query_ttl ago
GetCachedResult(cache, key, time) ==
    IF key \in DOMAIN cache.entries /\ time - cache.entries[key].stored_at < QueryTtl
    THEN [hit |-> TRUE, value |-> cache.entries[key].value]
    ELSE [hit |-> FALSE, value |-> <<>>]

\* SimilarityCache.cache_result
CacheResult(cache, key, value, time) ==
    [cache EXCEPT !.entries =
        [k \in DOMAIN cache.entries \cup {key} |->
            IF k = key THEN [value |-> value, stored_at |-> time] ELSE cache.entries[k]]]

\* SimilarityCache.invalidate_all_queries
InvalidateAllQueries(cache) == [cache EXCEPT !.entries = <<>>]

\* QuestionSimilarityDetector.find_similar over the decisions in ids: the ids
\* scoring at least the threshold, best first, equal scores in the order listed
RECURSIVE FindSimilar(_, _, _, _)
FindSimilar(nodes, question, threshold, ids) ==
    LET matches == {id \in ids : ComputeSimilarity(question, nodes[id].question) >= threshold}
        Score(id) == ComputeSimilarity(question, nodes[id].question)
    IN  IF matches = {}
        THEN <<>>
        ELSE LET best == CHOOSE id \in matches :
                             \A other \in matches \ {id} :
                                 \/ Score(id) > Score(other)
                                 \/ Score(id) = Score(other) /\ ListedBefore(nodes, id, other)
             IN  <<best>> \o FindSimilar(nodes, question, threshold, matches \ {best})

\* similar[:max_results]
FirstResults(similar, max_results) ==
    SubSeq(similar, 1, IF Len(similar) < max_results THEN Len(similar) ELSE max_results)

\* the loop that fetches each match with get_decision_node and skips the missing
RECURSIVE FetchDecisions(_, _)
FetchDecisions(nodes, matches) ==
    IF matches = <<>>
    THEN <<>>
    ELSE (IF GetDecisionNode(nodes, Head(matches)).id /= 0 THEN <<Head(matches)>> ELSE <<>>)
         \o FetchDecisions(nodes, Tail(matches))

\* find_relevant_decisions: what it returns or raises and the cache it leaves
FindRelevantDecisions(nodes, cache, time, query, fault) ==
    LET key == CacheKey(query.question, query.threshold, query.max_results)
        cached == GetCachedResult(cache, key, time)
        similar == FindSimilar(nodes, query.question, query.threshold, DOMAIN nodes)
        kept == FirstResults(similar, query.max_results)
    IN  IF ~(0 <= query.threshold /\ query.threshold <= 100) \/ query.max_results < 1
        THEN [raised |-> "ValueError", decisions |-> <<>>, from_cache |-> FALSE, cache |-> cache]
        ELSE IF query.question = ""
        THEN [raised |-> None, decisions |-> <<>>, from_cache |-> FALSE, cache |-> cache]
        ELSE IF cache.enabled /\ cached.hit
        THEN IF fault = "get_decision_node" /\ cached.value /= <<>>
             THEN [raised |-> "OperationalError", decisions |-> <<>>, from_cache |-> TRUE,
                   cache |-> cache]
             ELSE [raised |-> None, decisions |-> FetchDecisions(nodes, cached.value),
                   from_cache |-> TRUE, cache |-> cache]
        ELSE IF fault = "get_all_decisions"
        THEN [raised |-> "OperationalError", decisions |-> <<>>, from_cache |-> FALSE,
              cache |-> cache]
        ELSE IF DOMAIN nodes = {}
        THEN [raised |-> None, decisions |-> <<>>, from_cache |-> FALSE, cache |-> cache]
        ELSE LET cache_after == IF cache.enabled THEN CacheResult(cache, key, kept, time)
                                ELSE cache
             IN  IF fault = "get_decision_node" /\ kept /= <<>>
                 THEN [raised |-> "OperationalError", decisions |-> <<>>,
                       from_cache |-> FALSE, cache |-> cache_after]
                 ELSE [raised |-> None, decisions |-> FetchDecisions(nodes, kept),
                       from_cache |-> FALSE, cache |-> cache_after]

\* the exception leaves get_enriched_context
EnrichedContextOnError_Raises(error, cache) ==
    [raised |-> error, logged |-> None, decisions |-> <<>>, from_cache |-> FALSE,
     cache |-> cache]

\* "except Exception" of get_enriched_context: the error is logged and "" returned
EnrichedContextOnError(error, cache) ==
    [raised |-> None, logged |-> error, decisions |-> <<>>, from_cache |-> FALSE,
     cache |-> cache]

\* get_enriched_context: find_relevant_decisions, then format_context
GetEnrichedContext(nodes, cache, time, query, fault) ==
    LET found == FindRelevantDecisions(nodes, cache, time, query, fault)
    IN  IF found.raised /= None
        THEN EnrichedContextOnError(found.raised, found.cache)
        ELSE IF fault = "format_context" /\ found.decisions /= <<>>
        THEN EnrichedContextOnError("OperationalError", found.cache)
        ELSE [raised |-> None, logged |-> None, decisions |-> found.decisions,
              from_cache |-> found.from_cache, cache |-> found.cache]

\* max(0.0, min(1.0, threshold)), in hundredths
ClampThreshold(threshold) ==
    IF threshold < 0 THEN 0 ELSE IF threshold > 100 THEN 100 ELSE threshold

\* get_context_for_deliberation: the arguments are repaired, get_enriched_context
\* is called, and any exception is logged and "" returned
GetContextForDeliberation(nodes, cache, time, query, fault) ==
    IF query.question = ""
    THEN [raised |-> None, logged |-> None, decisions |-> <<>>, from_cache |-> FALSE,
          cache |-> cache]
    ELSE LET repaired == [question |-> query.question,
                          threshold |-> ClampThreshold(query.threshold),
                          max_results |-> IF query.max_results < 1 THEN 1
                                          ELSE query.max_results]
             context == GetEnrichedContext(nodes, cache, time, repaired, fault)
         IN  IF context.raised /= None
             THEN [raised |-> None, logged |-> context.raised, decisions |-> <<>>,
                   from_cache |-> FALSE, cache |-> context.cache]
             ELSE context

\* a retrieval function is called: it has not returned yet
CallRetrieval(fn, query) ==
    /\ ~retrieval_call.present
    /\ retrieval_call' = [present |-> TRUE, fn |-> fn, question |-> query.question,
                          threshold |-> query.threshold, max_results |-> query.max_results]
    /\ retrieval_result' = NoRetrievalResult
    /\ UNCHANGED <<decision_nodes, participant_stances, decision_similarities, storage_result,
                   store_result, query_cache, clock>>
    /\ UNCHANGED outside_graph

\* the function called runs to its return or raise
ReturnRetrieval(fault) ==
    /\ retrieval_call.present
    /\ LET query == [question |-> retrieval_call.question,
                     threshold |-> retrieval_call.threshold,
                     max_results |-> retrieval_call.max_results]
           done == CASE retrieval_call.fn = "find_relevant_decisions" ->
                            [logged |-> None] @@
                            FindRelevantDecisions(decision_nodes, query_cache, clock, query, fault)
                     [] retrieval_call.fn = "get_enriched_context" ->
                            GetEnrichedContext(decision_nodes, query_cache, clock, query, fault)
                     [] retrieval_call.fn = "get_context_for_deliberation" ->
                            GetContextForDeliberation(decision_nodes, query_cache, clock,
                                                      query, fault)
       IN  /\ retrieval_result' = [present |-> TRUE, fn |-> retrieval_call.fn,
                                   raised |-> done.raised, logged |-> done.logged,
                                   from_cache |-> done.from_cache,
                                   decisions |-> done.decisions]
           /\ query_cache' = done.cache
    /\ retrieval_call' = NoRetrievalCall
    /\ UNCHANGED <<decision_nodes, participant_stances, decision_similarities, storage_result,
                   store_result, clock>>
    /\ UNCHANGED outside_graph

\* invalidate_cache
InvalidateCache ==
    /\ query_cache' = IF query_cache.enabled THEN InvalidateAllQueries(query_cache)
                      ELSE query_cache
    /\ UNCHANGED <<decision_nodes, participant_stances, decision_similarities, storage_result,
                   store_result, clock, retrieval_call, retrieval_result>>
    /\ UNCHANGED outside_graph

\* time passes
Tick ==
    /\ clock < MaxTime
    /\ clock' = clock + 1
    /\ UNCHANGED <<decision_nodes, participant_stances, decision_similarities, storage_result,
                   store_result, query_cache, retrieval_call, retrieval_result>>
    /\ UNCHANGED outside_graph

\* DecisionRetriever(storage, enable_cache=...) over a new database
InitRetriever ==
    /\ GraphTablesEmpty
    /\ query_cache \in [enabled : BOOLEAN, entries : {<<>>}]
    /\ EngineIdle /\ AdapterIdle /\ FactoryIdle /\ ToolsInit /\ FormatIdle

NextRetriever ==
    \/ \E deliberation \in DeliberationResults :
           StoreDeliberation(deliberation.question, deliberation, [step |-> None, at |-> 0])
    \/ \E query \in ValidQueries : CallRetrieval("find_relevant_decisions", query)
    \/ \E query \in {q \in ValidQueries \cup InvalidQueries : q.max_results = 2} :
           CallRetrieval("get_enriched_context", query)
    \/ \E query \in {q \in ValidQueries \cup InvalidQueries : q.threshold = 70} :
           CallRetrieval("get_context_for_deliberation", query)
    \/ \E fault \in RetrievalFaults : ReturnRetrieval(fault)
    \/ InvalidateCache
    \/ Tick

SpecRetriever == InitRetriever /\ [][NextRetriever]_vars

\* a step in which find_relevant_decisions returns a list
FindRelevantDecisionsReturns ==
    /\ retrieval_call.present
    /\ retrieval_call.fn = "find_relevant_decisions"
    /\ retrieval_result'.present
    /\ retrieval_result'.raised = None

\* the key the claim names for the call in progress
CalledKey == <<retrieval_call.question, retrieval_call.threshold, retrieval_call.max_results>>

\* what the store gives for the call in progress: the best matches among the stored
\* decisions
ComputedFromStore ==
    FetchDecisions(decision_nodes,
        FirstResults(FindSimilar(decision_nodes, retrieval_call.question,
                                 retrieval_call.threshold, DOMAIN decision_nodes),
                     retrieval_call.max_results))

\* C23: find_relevant_decisions answers from the L1 cache only when the cache is
\* enabled and holds an entry under the same (question, threshold, max_results) that
\* was stored less than the TTL ago and not removed by invalidate_cache; in every
\* other case the answer is computed from the store.
C23_CacheHitOnlyFreshSameKey ==
    [][FindRelevantDecisionsReturns =>
          IF retrieval_result'.from_cache
          THEN /\ query_cache.enabled
               /\ CalledKey \in DOMAIN query_cache.entries
               /\ clock - query_cache.entries[CalledKey].stored_at < QueryTtl
               /\ retrieval_result'.decisions =
                      FetchDecisions(decision_nodes, query_cache.entries[CalledKey].value)
          ELSE retrieval_result'.decisions = ComputedFromStore]_vars

\* a query was answered from the cache while the cache also held an entry under
\* another key that had outlived the TTL
C23_Witness ==
    /\ retrieval_result.present
    /\ retrieval_result.fn = "find_relevant_decisions"
    /\ retrieval_result.from_cache
    /\ retrieval_result.decisions /= <<>>
    /\ \E key \in DOMAIN query_cache.entries :
           clock - query_cache.entries[key].stored_at >= QueryTtl

\* C24: a retrieval made after a decision was stored reflects it: what
\* find_relevant_decisions answers from the cache is what the store gives at that
\* moment, never a result cached before a later store.
C24_ReadYourWrites ==
    [][(FindRelevantDecisionsReturns /\ retrieval_result'.from_cache)
          => retrieval_result'.decisions = ComputedFromStore]_vars

\* with the cache disabled every answer is what the store gives
C24_ReadYourWritesWithoutCache ==
    [][(FindRelevantDecisionsReturns /\ ~query_cache.enabled)
          => retrieval_result'.decisions = ComputedFromStore]_vars

\* the last retrieval call was one of the two context functions
ContextReturned ==
    /\ retrieval_result.present
    /\ retrieval_result.fn \in {"get_enriched_context", "get_context_for_deliberation"}

NodeInsertFailed ==
    /\ store_result.present
    /\ store_result.failed_step = "save_decision_node"

\* C31: when the DecisionNode insert of store_deliberation fails, the error is
\* raised to the caller and no decision id is returned.
C31_NodeInsertFailureSurfaces ==
    NodeInsertFailed =>
        /\ store_result.raised /= None
        /\ store_result.returned = 0

\* the insert of a second decision failed, the first one stored
C31_Witness ==
    /\ NodeInsertFailed
    /\ store_result.raised = "OperationalError"
    /\ DOMAIN decision_nodes /= {}

\* C40: whenever the node insert of store_deliberation succeeded, the call returns
\* the new decision id: a failing stance write or similarity edge write is logged
\* and not raised.
C40_ReturnsIdOnceNodeInserted ==
    (store_result.present /\ store_result.failed_step /= "save_decision_node") =>
        /\ store_result.raised = None
        /\ store_result.returned = store_result.decision_id

\* a failure inside _compute_similarities is not raised: the id is returned
C40_SimilarityFailureNotRaised ==
    (/\ store_result.present
     /\ store_result.failed_step \in {"get_all_decisions", "compute_similarity",
                                      "save_similarity"}) =>
        /\ store_result.raised = None
        /\ store_result.returned = store_result.decision_id

\* a step in which a write of the storage API raised
StorageWriteFails ==
    /\ storage_result' /= storage_result
    /\ storage_result'.op \in {"save_decision_node", "save_participant_stance",
                               "save_similarity"}
    /\ storage_result'.raised /= None

\* C32: a store write (node, stance, similarity edge) that fails is rolled back: the
\* three tables are exactly as before the write, with no row of the failed write and
\* no change to the rows of earlier writes.
C32_FailedWriteRolledBack ==
    [][StorageWriteFails =>
          /\ decision_nodes' = decision_nodes
          /\ participant_stances' = participant_stances
          /\ decision_similarities' = decision_similarities]_vars

\* a similarity write failed in the database with rows in all three tables
C32_Witness ==
    /\ storage_result.op = "save_similarity"
    /\ storage_result.raised = "OperationalError"
    /\ DOMAIN decision_nodes /= {}
    /\ participant_stances /= <<>>
    /\ DOMAIN decision_similarities /= {}

\* C37: one invoke call spawns at most max_retries + 1 subprocesses, and after an
\* attempt that ended in a timeout no further subprocess is spawned.
C37_BoundedAttemptsNoneAfterTimeout ==
    /\ [](spawned <= max_retries + 1)
    /\ [][timed_out => spawned' = spawned]_vars

\* the last allowed attempt, reached through retries, ended in a timeout
C37_Witness ==
    /\ invoke_pc = "raised"
    /\ invoke_result.kind = "TimeoutError"
    /\ timed_out
    /\ max_retries = MaxRetries
    /\ spawned = max_retries + 1

\* ceil(threshold * n) for a threshold in percent
CeilShare(threshold, n) == (threshold * n + 99) \div 100

PriorParts(r) ==
    [j \in 1 .. (r - 1) * request.participants |->
        [round |-> outcomes[j].round, participant |-> outcomes[j].participant,
         response |-> outcomes[j].text]]

\* C35: the context passed to a participant in round r holds exactly the responses
\* of rounds 1 .. r-1 in order and none of round r, so the participants of one round
\* receive the same context; in round 1 no context is passed.
C35_ContextIsPriorRounds ==
    \A k \in DOMAIN contexts :
        LET c == contexts[k]
        IN  /\ c.round = 1 => c.context = NoContext
            /\ c.round > 1 =>
                   /\ c.context.present
                   /\ c.context.parts = PriorParts(c.round)
                   /\ \A j \in DOMAIN c.context.parts :
                          /\ c.context.parts[j].round < c.round
                          /\ c.context.parts[j].round = ((j - 1) \div request.participants) + 1
            /\ \A m \in DOMAIN contexts :
                   contexts[m].round = c.round => contexts[m].context = c.context

\* the last participant of round 3 was invoked after the first one had answered in
\* that round, with the four responses of rounds 1 and 2, an error text among them
C35_Witness ==
    /\ \E k \in DOMAIN contexts :
          /\ contexts[k].round = 3
          /\ contexts[k].participant = 2
          /\ Len(contexts[k].context.parts) = 4
          /\ \E j \in 1 .. 4 : contexts[k].context.parts[j].response = ErrorText
    /\ \E j \in DOMAIN outcomes : outcomes[j].round = 3 /\ outcomes[j].participant = 1

\* no execute_tool call is in flight
NoToolCallInFlight == \A t \in Tasks : tool_pc[t] # "executing"

\* the last of the calls that were in flight together returns; two of them
\* overlapped, all named a working directory and no restoring os.chdir failed
OverlappingCallsAllReturn ==
    /\ ~NoToolCallInFlight
    /\ NoToolCallInFlight'
    /\ overlapping.overlapped
    /\ overlapping.all_with_dir
    /\ ~overlapping.restore_failed
    /\ \A t \in Tasks : tool_pc[t] = "executing" => ~restore_logged'[t]

\* C38: when tool executions with working directories overlap in time, then after
\* all of them have returned the working directory of the process is what it was
\* before the first of them started.  Stated for overlapping calls whose restoring
\* os.chdir all succeeded.
C38_CwdRestoredAfterOverlap ==
    [][OverlappingCallsAllReturn => cwd' = overlapping.first_cwd]_vars

\* overlapping calls that return in the reverse order of their starts leave the
\* process where the first of them found it
C38_NestedCallsRestore ==
    [][(/\ OverlappingCallsAllReturn
        /\ \E t \in Tasks : tool_pc[t] = "executing" /\ cwd_before[t] = overlapping.first_cwd)
           => cwd' = overlapping.first_cwd]_vars

\* store_deliberation returned the id of the decision it stored last, no step of
\* it having failed
StoredWithoutFailure ==
    /\ store_result.present
    /\ store_result.raised = None
    /\ store_result.failed_step = None
    /\ \A id \in DOMAIN decision_nodes :
           id = store_result.decision_id \/ ListedBefore(decision_nodes, store_result.decision_id, id)

\* the decisions stored before the one store_deliberation stored last
PreviouslyStored == DOMAIN decision_nodes \ {store_result.decision_id}

\* the n most recent of them
MostRecentStored(n) ==
    {id \in PreviouslyStored :
        Cardinality({other \in PreviouslyStored : ListedBefore(decision_nodes, other, id)}) < n}

\* those of ids whose question scores at least 0.5 against the new decision's
ScoringAtLeastThreshold(ids) ==
    {id \in ids :
        ComputeSimilarity(decision_nodes[store_result.decision_id].question,
                          decision_nodes[id].question) >= EdgeThreshold}

\* the stored edges that start or end at the new decision
EdgesOfNewDecision ==
    {e \in DOMAIN decision_similarities :
        e[1] = store_result.decision_id \/ e[2] = store_result.decision_id}

\* C36: a stored decision is compared with each of the up to 100 most recent
\* decisions stored before it, and an edge is persisted for exactly those that
\* score at least 0.5, directed from the new decision to the older one.
C36_EdgesToHundredMostRecent ==
    StoredWithoutFailure =>
        EdgesOfNewDecision =
            {<<store_result.decision_id, id>> :
                id \in ScoringAtLeastThreshold(MostRecentStored(SimilarityLimit))}

\* the same with the new decision taking one of the 100 places of the listing
C36_EdgesToNinetyNineMostRecent ==
    StoredWithoutFailure =>
        EdgesOfNewDecision =
            {<<store_result.decision_id, id>> :
                id \in ScoringAtLeastThreshold(MostRecentStored(SimilarityLimit - 1))}

\* an edge to the 99th most recent earlier decision was stored, none to the 100th
C36_Window ==
    /\ StoredWithoutFailure
    /\ Cardinality(PreviouslyStored) >= SimilarityLimit
    /\ EdgesOfNewDecision # {}

\* the number of rounds the result's full_debate spans
RoundsSpanned == result.full_debate[Len(result.full_debate)].round

\* the entries of the result's full_debate from round r on, as the response holds them
DumpedFromRound(r) ==
    LET kept == SelectSeq(result.full_debate, LAMBDA e : e.round >= r)
    IN  [k \in DOMAIN kept |-> ModelDump(kept[k])]

\* C34: when full_debate spans more rounds than the cap N, the response holds
\* exactly the responses of the last N rounds, with full_debate_truncated = true and
\* total_rounds = the number of rounds; within the cap it is returned whole with
\* full_debate_truncated = false.
C34_LastRoundsInResponse ==
    rpc_response.present =>
        IF RoundsSpanned > rpc_response.max_rounds
        THEN /\ rpc_response.full_debate =
                    DumpedFromRound(RoundsSpanned - rpc_response.max_rounds + 1)
             /\ rpc_response.full_debate_truncated
             /\ rpc_response.has_total_rounds
             /\ rpc_response.total_rounds = RoundsSpanned
        ELSE /\ rpc_response.full_debate = DumpedFromRound(1)
             /\ ~rpc_response.full_debate_truncated

\* the response of the code: the cap counts the entries of full_debate, one per
\* participant and round, and total_rounds is their number
C34_LastEntriesInResponse ==
    rpc_response.present =>
        IF Len(result.full_debate) > rpc_response.max_rounds
        THEN /\ Len(rpc_response.full_debate) = rpc_response.max_rounds
             /\ \A k \in DOMAIN rpc_response.full_debate :
                    rpc_response.full_debate[k] =
                        ModelDump(result.full_debate[Len(result.full_debate)
                                                     - rpc_response.max_rounds + k])
             /\ rpc_response.full_debate_truncated
             /\ rpc_response.total_rounds = Len(result.full_debate)
        ELSE /\ rpc_response.full_debate = DumpedFromRound(1)
             /\ ~rpc_response.full_debate_truncated

\* the deliberations inside a write transaction
InTransaction == {t \in Tasks : writer_pc[t] = "in_transaction"}

\* the step ends the write transaction of t
EndsTransactionOf(t) == writer_pc[t] = "in_transaction" /\ writer_pc'[t] = "idle"

====
